---- MODULE Spec2Model ----
(***************************************************************************)
(* Authentication / session core of bamboo-mapper-backend:                 *)
(*   internal/auth/jwt.go        JWTManager (access and refresh tokens)     *)
(*   internal/handler/auth.go    Register, Login, Refresh, GetMe            *)
(*   internal/middleware/auth.go JWTAuth                                    *)
(*   queries/refresh_tokens.sql  the refresh_tokens statements              *)
(*   queries/users.sql           the users statements                       *)
(*                                                                         *)
(* Every HTTP request is served by its own goroutine.  Login, Register,    *)
(* GetMe and Logout issue at most one statement that writes, so each is    *)
(* one action.  Refresh issues three statements against refresh_tokens     *)
(* (SELECT, UPDATE, INSERT) with no transaction around them, so it is      *)
(* three actions per worker and other requests interleave between them.    *)
(*                                                                         *)
(* Strings the code inspects (emails, names, passwords) are sequences of   *)
(* one-character strings.  crypto/rand never repeats a 256-bit value: it   *)
(* is the counter `entropy`, and a raw refresh token is the base64 term    *)
(* over the value drawn.  SHA-256, HMAC and bcrypt are ideal: a digest or  *)
(* a MAC is a term over its input.                                         *)
(***************************************************************************)
EXTENDS Integers, Sequences, FiniteSets, TLC

\* ------------------------------------------------------------------ bounds
MaxTime == 1
MaxTokens == 3

\* ------------------------------------------------------- program constants
MinPasswordLen == 8
MaxNameLen == 100
MinEmailLen == 3
MaxEmailLen == 255
StatusOK == 200
StatusCreated == 201
StatusBadRequest == 400
StatusUnauthorized == 401
StatusConflict == 409
StatusInternalServerError == 500

\* ------------------------------------------------------------ input sets
\* request slots: goroutines that can be inside Refresh at the same time
Workers == {1, 2}

EmailA == <<"a", "@", "b", ".", "c">>
EmailAUpper == <<"A", "@", "B", ".", "c">>
EmailAPadded == <<" ", "a", "@", "b", ".", "c", " ">>
EmailX == <<"x", "@", "y", ".", "z">>
EmailBad == <<"a", ".", "b">>
EmailInputs == {EmailA, EmailAUpper, EmailAPadded, EmailX, EmailBad, <<>>}
RegisteredForms == {EmailA, EmailAUpper, EmailAPadded, EmailX}

GoodPassword == <<"p", "a", "s", "s", "w", "o", "r", "d">>
ShortPassword == <<"p", "w">>
PasswordInputs == {GoodPassword, ShortPassword, <<>>}

GoodName == <<"N">>
NameInputs == {GoodName, <<>>}

\* request bodies: okJSON = FALSE is a body json.Decode rejects
BadBody == [okJSON |-> FALSE, email |-> <<>>, name |-> <<>>, password |-> <<>>]
\* every body the claims range over
AllRegisterRequests ==
    {BadBody} \cup {[okJSON |-> TRUE, email |-> e, name |-> n, password |-> pw] :
                      e \in EmailInputs, n \in NameInputs, pw \in PasswordInputs}
AllLoginRequests ==
    {BadBody} \cup {[okJSON |-> TRUE, email |-> e, name |-> <<>>, password |-> pw] :
                      e \in EmailInputs, pw \in PasswordInputs}
\* the bodies clients send in the runs explored
RegisterRequests ==
    {[okJSON |-> TRUE, email |-> EmailAUpper, name |-> GoodName, password |-> GoodPassword]}
LoginRequests ==
    {[okJSON |-> TRUE, email |-> e, name |-> <<>>, password |-> GoodPassword] :
        e \in {EmailAPadded, EmailX}}
    \cup {[okJSON |-> TRUE, email |-> EmailA, name |-> <<>>, password |-> ShortPassword]}

\* the bodies sent to the account endpoints: every body, the address a@b.c
\* being typed in capitals or with blanks around it when registering
AccountRegisterRequests == {r \in AllRegisterRequests : r.email # EmailA}

\* the login that opens a session of the registered user
SessionLoginRequests ==
    {[okJSON |-> TRUE, email |-> EmailAPadded, name |-> <<>>, password |-> GoodPassword]}

\* two accounts, and the logins that open their sessions
TwoUserRegisterRequests ==
    {[okJSON |-> TRUE, email |-> e, name |-> GoodName, password |-> GoodPassword] :
        e \in {EmailAUpper, EmailX}}
TwoUserLoginRequests ==
    {[okJSON |-> TRUE, email |-> e, name |-> <<>>, password |-> GoodPassword] :
        e \in {EmailA, EmailX}}

\* logins that succeed and logins that fail in each way: wrong password, unknown
\* email (until x@y.z is registered), invalid body, undecodable body
IssuanceLoginRequests ==
    LoginRequests
    \cup {BadBody, [okJSON |-> TRUE, email |-> EmailA, name |-> <<>>, password |-> <<>>]}

\* configurations the process can be started with (config.Load)
SecretKey == "jwt-secret"
\* time.Duration values are in milliseconds; the clock counts whole seconds
Second == 1000
Minute == 60 * Second
Hour == 60 * Minute
AccessTokenExpiry == 1000
NegativeAccessTokenExpiry == -1000
RefreshTokenExpiry == 1000
\* a session that ends within the second it began in
ShortRefreshTokenExpiry == 500

\* ------------------------------------------------------------ configuration
\* unit strings of time.ParseDuration; a duration is counted in milliseconds, so
\* the units below a millisecond are outside the strings read here
unitMap == [u \in {<<"m", "s">>, <<"s">>, <<"m">>, <<"h">>} |->
              IF u = <<"m", "s">> THEN 1
              ELSE IF u = <<"s">> THEN Second
              ELSE IF u = <<"m">> THEN Minute
              ELSE Hour]

Digits == {"0", "1", "2", "3", "4", "5", "6", "7", "8", "9"}
DigitValue(c) ==
    CASE c = "0" -> 0 [] c = "1" -> 1 [] c = "2" -> 2 [] c = "3" -> 3 [] c = "4" -> 4
      [] c = "5" -> 5 [] c = "6" -> 6 [] c = "7" -> 7 [] c = "8" -> 8 [] c = "9" -> 9

\* length of the longest prefix of s made of digits (digit = TRUE) or of
\* non-digits (digit = FALSE)
RECURSIVE Span(_, _)
Span(s, digit) ==
    IF s = <<>> \/ ((s[1] \in Digits) # digit) THEN 0
    ELSE 1 + Span(Tail(s), digit)

\* the value of a string of digits
RECURSIVE leadingInt(_)
leadingInt(s) ==
    IF s = <<>> THEN 0
    ELSE 10 * leadingInt(SubSeq(s, 1, Len(s) - 1)) + DigitValue(s[Len(s)])

\* the loop of time.ParseDuration: number, unit, number, unit, ...
RECURSIVE ParseDurationLoop(_, _)
ParseDurationLoop(s, d) ==
    IF s = <<>> THEN [err |-> "nil", d |-> d]
    ELSE LET n == Span(s, TRUE)
             rest == SubSeq(s, n + 1, Len(s))
             i == Span(rest, FALSE)
             u == SubSeq(rest, 1, i)
         IN  IF n = 0 THEN [err |-> "invalid duration", d |-> 0]
             ELSE IF i = 0 THEN [err |-> "missing unit in duration", d |-> 0]
             ELSE IF u \notin DOMAIN unitMap THEN [err |-> "unknown unit in duration", d |-> 0]
             ELSE ParseDurationLoop(SubSeq(rest, i + 1, Len(rest)),
                                    d + leadingInt(SubSeq(s, 1, n)) * unitMap[u])

\* time.ParseDuration: [-+]?(digits unit)+, or "0"
ParseDuration(str) ==
    LET signed == str # <<>> /\ str[1] \in {"-", "+"}
        neg == signed /\ str[1] = "-"
        s == IF signed THEN Tail(str) ELSE str
    IN  IF s = <<"0">> THEN [err |-> "nil", d |-> 0]
        ELSE IF s = <<>> THEN [err |-> "invalid duration", d |-> 0]
        ELSE LET r == ParseDurationLoop(s, 0)
             IN  IF r.err # "nil" THEN r
                 ELSE [err |-> "nil", d |-> IF neg THEN -r.d ELSE r.d]

\* parseDuration: the default when the string does not parse
parseDuration(s, defaultValue) ==
    LET r == ParseDuration(s)
    IN  IF r.err # "nil" THEN defaultValue ELSE r.d

\* the environment: for every key, whether it is set (os.LookupEnv) and to what
Unset == [exists |-> FALSE, value |-> <<>>]
SetTo(v) == [exists |-> TRUE, value |-> v]

getEnv(env, key, defaultValue) ==
    IF env[key].exists THEN env[key].value ELSE defaultValue

\* config.Load, the fields the auth core reads
Load(env) ==
    [JWTSecret |-> getEnv(env, "JWT_SECRET", ""),
     AccessTokenExpiry |->
        parseDuration(getEnv(env, "ACCESS_TOKEN_EXPIRY", <<"1", "5", "m">>), 15 * Minute),
     RefreshTokenExpiry |->
        parseDuration(getEnv(env, "REFRESH_TOKEN_EXPIRY", <<"1", "6", "8", "h">>),
                      7 * 24 * Hour)]

Environment(secret, access, refresh) ==
    [key \in {"JWT_SECRET", "ACCESS_TOKEN_EXPIRY", "REFRESH_TOKEN_EXPIRY"} |->
        IF key = "JWT_SECRET" THEN secret
        ELSE IF key = "ACCESS_TOKEN_EXPIRY" THEN access ELSE refresh]

\* values an operator gives the expiry variables: well-formed ones, ones with a
\* part of a second, a negative one, and ones time.ParseDuration rejects
DurationInputs ==
    {<<"1", "5", "m">>, <<"1", "6", "8", "h">>, <<"1", "h", "3", "0", "m">>,
     <<"1", "5", "0", "0", "m", "s">>, <<"9", "9", "9", "m", "s">>, <<"-", "1", "s">>,
     <<"-", "1", "5", "0", "0", "m", "s">>, <<"0">>, <<"9", "0", "0">>, <<"m">>,
     <<"1", "d">>, <<"-">>, <<>>}
SecretInputs == {Unset, SetTo(""), SetTo(SecretKey)}
\* every environment the claims range over
AllEnvs ==
    {Environment(k, a, r) :
        k \in SecretInputs,
        a \in {Unset} \cup {SetTo(v) : v \in DurationInputs},
        r \in {Unset, SetTo(<<"1", "h", "3", "0", "m">>), SetTo(<<"9", "0", "0">>)}}
\* the environments the process is started with in the runs explored
Envs ==
    {Environment(k, a, Unset) :
        k \in SecretInputs,
        a \in {Unset, SetTo(<<"1", "5", "0", "0", "m", "s">>)}}

VARIABLES
    proc,            \* the process: "starting" (in main), "serving" or "exited"
    cfg,             \* config.Config as read at start-up
    users,           \* table users, in insertion order; id = position
    refresh_tokens,  \* table refresh_tokens, in insertion order
    now,             \* the clock: time.Now() and SQL NOW()
    entropy,         \* crypto/rand: next unused 32-byte value
    pc,              \* per worker: position inside Refresh
    tokenHash,       \* per worker: Refresh's local tokenHash
    storedToken,     \* per worker: Refresh's local storedToken
    presented,       \* per worker: raw token of the Refresh call in progress
    late,            \* per worker: the call began after a Refresh of the same token had succeeded
    resp,            \* the response written last
    issuedLog,       \* history: every (access token, raw refresh token) pair handed out
    redeemed,        \* history: raw tokens of successful Refresh calls, in order
    rotated,         \* history: raw tokens whose rotation UPDATE a Refresh call has run
    loggedOut        \* history: raw tokens issued to a user before a completed Logout of that user

vars == <<proc, cfg, users, refresh_tokens, now, entropy, pc, tokenHash, storedToken,
          presented, late, resp, issuedLog, redeemed, rotated, loggedOut>>

\* sql.NullTime
NullTime == [Valid |-> FALSE, Time |-> 0]
TimeValue(t) == [Valid |-> TRUE, Time |-> t]

\* ---------------------------------------------------------------- strings
LowerOf(c) ==
    CASE c = "A" -> "a"
      [] c = "B" -> "b"
      [] c = "N" -> "n"
      [] OTHER -> c

\* faulty variant: the email is used in the case it was typed in
ToLowerNone(s) == s

\* strings.ToLower
ToLower(s) == [i \in 1..Len(s) |-> LowerOf(s[i])]

RECURSIVE TrimLeft(_)
TrimLeft(s) == IF s # <<>> /\ Head(s) = " " THEN TrimLeft(Tail(s)) ELSE s

RECURSIVE TrimRight(_)
TrimRight(s) ==
    IF s # <<>> /\ s[Len(s)] = " " THEN TrimRight(SubSeq(s, 1, Len(s) - 1)) ELSE s

\* strings.TrimSpace
TrimSpace(s) == TrimRight(TrimLeft(s))

\* strings.Index(s, c): 0-based, -1 when absent
Index(s, c) ==
    IF \E i \in 1..Len(s) : s[i] = c
    THEN (CHOOSE i \in 1..Len(s) : s[i] = c /\ \A j \in 1..(i - 1) : s[j] # c) - 1
    ELSE -1

\* strings.LastIndex(s, c)
LastIndex(s, c) ==
    IF \E i \in 1..Len(s) : s[i] = c
    THEN (CHOOSE i \in 1..Len(s) : s[i] = c /\ \A j \in (i + 1)..Len(s) : s[j] # c) - 1
    ELSE -1

isValidEmail(email) ==
    IF Len(email) < MinEmailLen \/ Len(email) > MaxEmailLen THEN FALSE
    ELSE IF Index(email, "@") < 1 THEN FALSE
    ELSE LastIndex(email, ".") > Index(email, "@") + 1
         /\ LastIndex(email, ".") < Len(email) - 1

\* ------------------------------------------------------ request validation
\* model.RegisterRequest.Validate: the fields in error, after trimming
RegisterValidate(email, name, password) ==
    (IF TrimSpace(email) = <<>> THEN {<<"email", "email is required">>}
     ELSE IF ~isValidEmail(TrimSpace(email)) THEN {<<"email", "invalid email format">>}
     ELSE {})
    \cup
    (IF TrimSpace(name) = <<>> THEN {<<"name", "name is required">>}
     ELSE IF Len(TrimSpace(name)) > MaxNameLen
          THEN {<<"name", "name must be 100 characters or less">>}
     ELSE {})
    \cup
    (IF password = <<>> THEN {<<"password", "password is required">>}
     ELSE IF Len(password) < MinPasswordLen
          THEN {<<"password", "password must be at least 8 characters">>}
     ELSE {})

\* model.LoginRequest.Validate
LoginValidate(email, password) ==
    (IF TrimSpace(email) = <<>> THEN {<<"email", "email is required">>} ELSE {})
    \cup
    (IF password = <<>> THEN {<<"password", "password is required">>} ELSE {})

\* Raw refresh-token strings a client can present.
BlankToken == [kind |-> "blank", n |-> 0]
InvalidText == [kind |-> "text", n |-> 0]
\* base64.URLEncoding.EncodeToString of 32 bytes
Base64URLEncode(bytes) == [kind |-> "b64", n |-> bytes]
RawTokenInputs == {BlankToken, InvalidText} \cup {Base64URLEncode(n) : n \in 1..(MaxTokens + 1)}
AllRefreshRequests ==
    {[okJSON |-> FALSE, refresh_token |-> BlankToken]}
    \cup {[okJSON |-> TRUE, refresh_token |-> r] : r \in RawTokenInputs}
RefreshRequests ==
    {[okJSON |-> TRUE, refresh_token |-> Base64URLEncode(n)] : n \in 1..(MaxTokens + 1)}

\* model.RefreshRequest.Validate
RefreshValidate(refreshToken) ==
    IF refreshToken.kind = "blank"
    THEN {<<"refresh_token", "refresh_token is required">>}
    ELSE {}

\* ------------------------------------------------------------ responses
NoData == [kind |-> "null"]

\* respondError: success=false, data null
respondError(op, status, message, details) ==
    [op |-> op, status |-> status, success |-> FALSE, message |-> message,
     details |-> details, data |-> NoData, req |-> BlankToken, late |-> FALSE]

\* respondSuccess
respondSuccess(op, status, message, data) ==
    [op |-> op, status |-> status, success |-> TRUE, message |-> message,
     details |-> {}, data |-> data, req |-> BlankToken, late |-> FALSE]

\* middleware.respondUnauthorized
respondUnauthorized(op, message) ==
    [op |-> op, status |-> StatusUnauthorized, success |-> FALSE, message |-> message,
     details |-> {}, data |-> NoData, req |-> BlankToken, late |-> FALSE]

\* model.UserResponse: the user row without its password hash
UserResponse(user) ==
    [kind |-> "user", id |-> user.id, email |-> user.email, name |-> user.name,
     role |-> user.role]

\* --------------------------------------------------------------- bcrypt
bcryptCost == 12

\* bcrypt.GenerateFromPassword: one-way, so the digest is a term over the password
GenerateFromPassword(password, cost) == [alg |-> "bcrypt", cost |-> cost, of |-> password]

\* bcrypt.CompareHashAndPassword: TRUE when the digest was made from the password
CompareHashAndPassword(hash, password) == hash.alg = "bcrypt" /\ hash.of = password

\* ------------------------------------------------- users.sql statements
NoUser == [id |-> 0, email |-> <<>>, password_hash |-> GenerateFromPassword(<<>>, 0),
           name |-> <<>>, role |-> ""]

\* faulty variant: the users table has no UNIQUE constraint on email
CreateUserNoConstraint(tab, email, password_hash, name, role) ==
    LET row == [id |-> Len(tab) + 1, email |-> email,
                password_hash |-> password_hash, name |-> name, role |-> role]
    IN  [err |-> "nil", tab |-> Append(tab, row), row |-> row]

\* CreateUser: INSERT; email is UNIQUE (000001_init_schema.up.sql), so a second row
\* with the same email is refused with SQLSTATE 23505
CreateUser(tab, email, password_hash, name, role) ==
    IF \E i \in 1..Len(tab) : tab[i].email = email
    THEN [err |-> "23505", tab |-> tab, row |-> NoUser]
    ELSE LET row == [id |-> Len(tab) + 1, email |-> email,
                     password_hash |-> password_hash, name |-> name, role |-> role]
         IN  [err |-> "nil", tab |-> Append(tab, row), row |-> row]

\* GetUserByEmail: SELECT * FROM users WHERE email = $1
GetUserByEmail(tab, email) ==
    IF \E i \in 1..Len(tab) : tab[i].email = email
    THEN [err |-> "nil", row |-> tab[CHOOSE i \in 1..Len(tab) : tab[i].email = email]]
    ELSE [err |-> "sql.ErrNoRows", row |-> NoUser]

\* faulty variant: the role is not read back, the row carries the role of a new account
GetUserByIDDefaultRole(tab, id) ==
    IF \E i \in 1..Len(tab) : tab[i].id = id
    THEN [err |-> "nil",
          row |-> [tab[CHOOSE i \in 1..Len(tab) : tab[i].id = id] EXCEPT !.role = "user"]]
    ELSE [err |-> "sql.ErrNoRows", row |-> NoUser]

\* GetUserByID: SELECT ... FROM users WHERE id = $1
GetUserByID(tab, id) ==
    IF \E i \in 1..Len(tab) : tab[i].id = id
    THEN [err |-> "nil", row |-> tab[CHOOSE i \in 1..Len(tab) : tab[i].id = id]]
    ELSE [err |-> "sql.ErrNoRows", row |-> NoUser]

\* ---------------------------------------- refresh_tokens.sql statements
\* SHA-256 then hex: collision-free, and a digest does not reveal its input
Sha256Hex(s) == <<"sha256", s>>

NoToken == [user_id |-> 0, token_hash |-> Sha256Hex(BlankToken), expires_at |-> 0,
            revoked_at |-> NullTime, created_at |-> 0]

\* CreateRefreshToken: INSERT, revoked_at left NULL, created_at DEFAULT NOW()
CreateRefreshToken(tab, user_id, token_hash, expires_at, t) ==
    Append(tab, [user_id |-> user_id, token_hash |-> token_hash,
                 expires_at |-> expires_at, revoked_at |-> NullTime, created_at |-> t])

\* time.Now() and SQL NOW() as an instant in milliseconds
UnixMilli(t) == t * Second

\* faulty variant: the WHERE clause reads "expires_at >= NOW()"
IsActiveInclusive(row, token_hash, t) ==
    row.token_hash = token_hash /\ ~row.revoked_at.Valid /\ row.expires_at >= UnixMilli(t)

\* the WHERE clause of GetRefreshTokenByHash
IsActive(row, token_hash, t) ==
    row.token_hash = token_hash /\ ~row.revoked_at.Valid /\ row.expires_at > UnixMilli(t)

\* faulty variant: the WHERE clause lacks "revoked_at IS NULL"
GetRefreshTokenByHashIgnoringRevoked(tab, token_hash, t) ==
    IF \E i \in 1..Len(tab) : tab[i].token_hash = token_hash /\ tab[i].expires_at > UnixMilli(t)
    THEN [err |-> "nil",
          row |-> tab[CHOOSE i \in 1..Len(tab) :
                        /\ tab[i].token_hash = token_hash /\ tab[i].expires_at > UnixMilli(t)
                        /\ \A j \in 1..(i - 1) :
                              ~(tab[j].token_hash = token_hash /\ tab[j].expires_at > UnixMilli(t))]]
    ELSE [err |-> "sql.ErrNoRows", row |-> NoToken]

\* GetRefreshTokenByHash :one
GetRefreshTokenByHash(tab, token_hash, t) ==
    IF \E i \in 1..Len(tab) : IsActive(tab[i], token_hash, t)
    THEN [err |-> "nil",
          row |-> tab[CHOOSE i \in 1..Len(tab) :
                        /\ IsActive(tab[i], token_hash, t)
                        /\ \A j \in 1..(i - 1) : ~IsActive(tab[j], token_hash, t)]]
    ELSE [err |-> "sql.ErrNoRows", row |-> NoToken]

\* faulty variant: the WHERE clause reads "AND revoked_at IS NOT NULL", so no active row matches
RevokeRefreshTokenOnlyRevoked(tab, token_hash, t) ==
    [i \in 1..Len(tab) |->
        IF tab[i].token_hash = token_hash /\ tab[i].revoked_at.Valid
        THEN [tab[i] EXCEPT !.revoked_at = TimeValue(t)]
        ELSE tab[i]]

\* faulty variant: the UPDATE flips revoked_at, so revoking twice restores the row
RevokeRefreshTokenToggle(tab, token_hash, t) ==
    [i \in 1..Len(tab) |->
        IF tab[i].token_hash = token_hash
        THEN [tab[i] EXCEPT !.revoked_at = IF tab[i].revoked_at.Valid THEN NullTime
                                           ELSE TimeValue(t)]
        ELSE tab[i]]

\* RevokeRefreshToken: UPDATE ... SET revoked_at = NOW() WHERE token_hash = $1
RevokeRefreshToken(tab, token_hash, t) ==
    [i \in 1..Len(tab) |->
        IF tab[i].token_hash = token_hash
        THEN [tab[i] EXCEPT !.revoked_at = TimeValue(t)]
        ELSE tab[i]]

\* faulty variant: only the oldest active row of the user is updated
RevokeAllUserRefreshTokensFirst(tab, user_id, t) ==
    [i \in 1..Len(tab) |->
        IF /\ tab[i].user_id = user_id
           /\ ~tab[i].revoked_at.Valid
           /\ \A j \in 1..(i - 1) : ~(tab[j].user_id = user_id /\ ~tab[j].revoked_at.Valid)
        THEN [tab[i] EXCEPT !.revoked_at = TimeValue(t)]
        ELSE tab[i]]

\* faulty variant: the UPDATE flips revoked_at, so a second logout clears it
RevokeAllUserRefreshTokensFlip(tab, user_id, t) ==
    [i \in 1..Len(tab) |->
        IF tab[i].user_id # user_id THEN tab[i]
        ELSE IF tab[i].revoked_at.Valid THEN [tab[i] EXCEPT !.revoked_at = NullTime]
        ELSE [tab[i] EXCEPT !.revoked_at = TimeValue(t)]]

\* faulty variant: the WHERE clause lacks "user_id = $1"
RevokeAllUserRefreshTokensEveryUser(tab, user_id, t) ==
    [i \in 1..Len(tab) |->
        IF ~tab[i].revoked_at.Valid
        THEN [tab[i] EXCEPT !.revoked_at = TimeValue(t)]
        ELSE tab[i]]

\* RevokeAllUserRefreshTokens: UPDATE ... WHERE user_id = $1 AND revoked_at IS NULL
RevokeAllUserRefreshTokens(tab, user_id, t) ==
    [i \in 1..Len(tab) |->
        IF tab[i].user_id = user_id /\ ~tab[i].revoked_at.Valid
        THEN [tab[i] EXCEPT !.revoked_at = TimeValue(t)]
        ELSE tab[i]]

KeptByCleanup(row, t) == ~(row.expires_at < UnixMilli(t) \/ row.revoked_at.Valid)

\* DeleteExpiredRefreshTokens: DELETE ... WHERE expires_at < NOW() OR revoked_at IS NOT NULL
DeleteExpiredRefreshTokens(tab, t) ==
    LET keep == {i \in 1..Len(tab) : KeptByCleanup(tab[i], t)}
        F[n \in 0..Len(tab)] ==
            IF n = 0 THEN <<>>
            ELSE IF n \in keep THEN Append(F[n - 1], tab[n]) ELSE F[n - 1]
    IN  F[Len(tab)]

\* ------------------------------------------------------------ JWTManager
\* NewJWTManager
NewJWTManager(c) ==
    [secretKey |-> c.JWTSecret, accessTokenExpiry |-> c.AccessTokenExpiry,
     refreshTokenExpiry |-> c.RefreshTokenExpiry]

\* the MAC of a token's header and claims under a key
HMAC(key, alg, claims) == [key |-> key, alg |-> alg, claims |-> claims]

\* jwt.NewNumericDate: the instant truncated to whole seconds
NewNumericDate(ms) == ms \div Second

\* GenerateAccessToken: HS256 over the claims, exp = now + accessTokenExpiry
GenerateAccessToken(m, userID, email, role, t) ==
    LET claims == [user_id |-> userID, email |-> email, role |-> role,
                   exp |-> NewNumericDate(UnixMilli(t) + m.accessTokenExpiry),
                   iat |-> NewNumericDate(UnixMilli(t)),
                   nbf |-> NewNumericDate(UnixMilli(t)),
                   iss |-> "bamboo-mapper", sub |-> userID]
    IN  [form |-> "jwt", alg |-> "HS256", claims |-> claims,
         mac |-> HMAC(m.secretKey, "HS256", claims)]

\* faulty variant: the token is derived from the clock instead of crypto/rand
GenerateRefreshTokenClock(m, tokenBytes, t) ==
    [rawToken |-> Base64URLEncode(t + 1),
     tokenHash |-> Sha256Hex(Base64URLEncode(t + 1)),
     expiresAt |-> UnixMilli(t) + m.refreshTokenExpiry]

\* faulty variant: the value handed to the store is the secret itself, tagged, not its digest
GenerateRefreshTokenPlain(m, tokenBytes, t) ==
    [rawToken |-> Base64URLEncode(tokenBytes),
     tokenHash |-> <<"plain", Base64URLEncode(tokenBytes)>>,
     expiresAt |-> UnixMilli(t) + m.refreshTokenExpiry]

\* GenerateRefreshToken: (rawToken, tokenHash, expiresAt) from 32 random bytes
GenerateRefreshToken(m, tokenBytes, t) ==
    [rawToken |-> Base64URLEncode(tokenBytes),
     tokenHash |-> Sha256Hex(Base64URLEncode(tokenBytes)),
     expiresAt |-> UnixMilli(t) + m.refreshTokenExpiry]

\* faulty variant: the lookup digest is salted, the digest stored at issuance is not
HashRefreshTokenSalted(rawToken) == Sha256Hex([kind |-> "salted", n |-> rawToken.n])

\* HashRefreshToken
HashRefreshToken(rawToken) == Sha256Hex(rawToken)

\* jwt.SigningMethodHMAC: HS256, HS384, HS512
HMACMethods == {"HS256", "HS384", "HS512"}
\* the signing methods golang-jwt registers
RegisteredMethods == HMACMethods \cup {"none", "RS256", "ES256"}

\* faulty variant: the claims are validated before the key is looked up
ParseWithClaimsClaimsFirst(m, tok, t) ==
    IF tok.form # "jwt" THEN {"ErrTokenMalformed"}
    ELSE LET bad == (IF t < tok.claims.exp THEN {} ELSE {"ErrTokenExpired"})
                    \cup (IF t < tok.claims.nbf THEN {"ErrTokenNotValidYet"} ELSE {})
         IN  IF bad # {} THEN bad \cup {"ErrTokenInvalidClaims"}
             ELSE IF tok.alg \notin RegisteredMethods THEN {"ErrTokenUnverifiable"}
             ELSE IF tok.alg \notin HMACMethods
             THEN {"ErrTokenUnverifiable", "ErrInvalidToken"}
             ELSE IF tok.mac # HMAC(m.secretKey, tok.alg, tok.claims)
             THEN {"ErrTokenSignatureInvalid"}
             ELSE {}

\* jwt.ParseWithClaims with the Keyfunc of ValidateAccessToken (golang-jwt v5):
\* the errors the returned error wraps, {} when the token is valid.  The key is
\* looked up and the signature verified before the claims are validated.
ParseWithClaims(m, tok, t) ==
    IF tok.form # "jwt" THEN {"ErrTokenMalformed"}
    ELSE IF tok.alg \notin RegisteredMethods THEN {"ErrTokenUnverifiable"}
    ELSE IF tok.alg \notin HMACMethods THEN {"ErrTokenUnverifiable", "ErrInvalidToken"}
    ELSE IF tok.mac # HMAC(m.secretKey, tok.alg, tok.claims) THEN {"ErrTokenSignatureInvalid"}
    ELSE LET bad == (IF t < tok.claims.exp THEN {} ELSE {"ErrTokenExpired"})
                    \cup (IF t < tok.claims.nbf THEN {"ErrTokenNotValidYet"} ELSE {})
         IN  IF bad = {} THEN {} ELSE bad \cup {"ErrTokenInvalidClaims"}

NoClaims == [user_id |-> 0, email |-> <<>>, role |-> "", exp |-> 0, iat |-> 0, nbf |-> 0,
             iss |-> "", sub |-> 0]

\* faulty variant: the error of the parser is not inspected, every failure is ErrInvalidToken
ValidateAccessTokenOneError(m, tok, t) ==
    IF ParseWithClaims(m, tok, t) # {}
    THEN [err |-> "ErrInvalidToken", claims |-> NoClaims]
    ELSE [err |-> "nil", claims |-> tok.claims]

\* ValidateAccessToken: (claims, err)
ValidateAccessToken(m, tok, t) ==
    LET errs == ParseWithClaims(m, tok, t)
    IN  IF errs # {}
        THEN IF "ErrTokenExpired" \in errs
             THEN [err |-> "ErrExpiredToken", claims |-> NoClaims]
             ELSE [err |-> "ErrInvalidToken", claims |-> NoClaims]
        ELSE [err |-> "nil", claims |-> tok.claims]

\* GetAccessTokenExpiry
GetAccessTokenExpiry(m) == m.accessTokenExpiry

\* int64(d.Seconds()): the duration in seconds, the fraction cut off towards zero
Seconds(d) == IF d >= 0 THEN d \div Second ELSE -((-d) \div Second)

\* ------------------------------------------------------------- JWTAuth
\* strings.EqualFold(scheme, "Bearer")
EqualFoldBearer(scheme) == scheme \in {"Bearer", "bearer", "BEARER"}

\* faulty variant: an expired token is passed on with the claims it carries
JWTAuthLenient(m, op, header, t) ==
    IF Len(header) = 0
    THEN [next |-> FALSE, claims |-> NoClaims,
          resp |-> respondUnauthorized(op, "Authorization header required")]
    ELSE IF Len(header) # 2 \/ ~EqualFoldBearer(header[1])
    THEN [next |-> FALSE, claims |-> NoClaims,
          resp |-> respondUnauthorized(op, "Invalid authorization header format")]
    ELSE LET v == ValidateAccessToken(m, header[2], t)
         IN  IF v.err \notin {"nil", "ErrExpiredToken"}
             THEN [next |-> FALSE, claims |-> NoClaims,
                   resp |-> respondUnauthorized(op, "Invalid token")]
             ELSE [next |-> TRUE, claims |-> header[2].claims,
                   resp |-> respondSuccess(op, StatusOK, "", NoData)]

\* faulty variant: the gate also wants an unrevoked session of the user in the store
JWTAuthSessionBound(m, op, header, t) ==
    IF Len(header) = 0
    THEN [next |-> FALSE, claims |-> NoClaims,
          resp |-> respondUnauthorized(op, "Authorization header required")]
    ELSE IF Len(header) # 2 \/ ~EqualFoldBearer(header[1])
    THEN [next |-> FALSE, claims |-> NoClaims,
          resp |-> respondUnauthorized(op, "Invalid authorization header format")]
    ELSE LET v == ValidateAccessToken(m, header[2], t)
         IN  IF v.err = "ErrExpiredToken"
             THEN [next |-> FALSE, claims |-> NoClaims,
                   resp |-> respondUnauthorized(op, "Token has expired")]
             ELSE IF \/ v.err # "nil"
                     \/ ~\E i \in 1..Len(refresh_tokens) :
                           /\ refresh_tokens[i].user_id = v.claims.user_id
                           /\ ~refresh_tokens[i].revoked_at.Valid
             THEN [next |-> FALSE, claims |-> NoClaims,
                   resp |-> respondUnauthorized(op, "Invalid token")]
             ELSE [next |-> TRUE, claims |-> v.claims,
                   resp |-> respondSuccess(op, StatusOK, "", NoData)]

\* faulty variant: every token the codec refuses is answered "Invalid token"
JWTAuthOneMessage(m, op, header, t) ==
    IF Len(header) = 0
    THEN [next |-> FALSE, claims |-> NoClaims,
          resp |-> respondUnauthorized(op, "Authorization header required")]
    ELSE IF Len(header) # 2 \/ ~EqualFoldBearer(header[1])
    THEN [next |-> FALSE, claims |-> NoClaims,
          resp |-> respondUnauthorized(op, "Invalid authorization header format")]
    ELSE LET v == ValidateAccessToken(m, header[2], t)
         IN  IF v.err # "nil"
             THEN [next |-> FALSE, claims |-> NoClaims,
                   resp |-> respondUnauthorized(op, "Invalid token")]
             ELSE [next |-> TRUE, claims |-> v.claims,
                   resp |-> respondSuccess(op, StatusOK, "", NoData)]

\* JWTAuth: header is the Authorization value split by SplitN(" ", 2); <<>> is the
\* empty value.  next = TRUE when the request is passed on, with claims in its context.
JWTAuth(m, op, header, t) ==
    IF Len(header) = 0
    THEN [next |-> FALSE, claims |-> NoClaims,
          resp |-> respondUnauthorized(op, "Authorization header required")]
    ELSE IF Len(header) # 2 \/ ~EqualFoldBearer(header[1])
    THEN [next |-> FALSE, claims |-> NoClaims,
          resp |-> respondUnauthorized(op, "Invalid authorization header format")]
    ELSE LET v == ValidateAccessToken(m, header[2], t)
         IN  IF v.err # "nil"
             THEN IF v.err = "ErrExpiredToken"
                  THEN [next |-> FALSE, claims |-> NoClaims,
                        resp |-> respondUnauthorized(op, "Token has expired")]
                  ELSE [next |-> FALSE, claims |-> NoClaims,
                        resp |-> respondUnauthorized(op, "Invalid token")]
             ELSE [next |-> TRUE, claims |-> v.claims, resp |-> respondSuccess(op, StatusOK, "", NoData)]

\* ------------------------------------------------------------ handlers
jwtManager == NewJWTManager(cfg)

IdleHash == Sha256Hex(BlankToken)

\* raw tokens for which some Refresh call has already answered 200
RedeemedSet == {redeemed[i] : i \in 1..Len(redeemed)}

\* AuthHandler.Register up to its response: (response, users table afterwards)
RegisterResult(tab, okJSON, email, name, password) ==
    IF ~okJSON
    THEN [tab |-> tab,
          resp |-> respondError("register", StatusBadRequest, "Invalid request body", {})]
    ELSE IF RegisterValidate(email, name, password) # {}
    THEN [tab |-> tab,
          resp |-> respondError("register", StatusBadRequest, "Validation failed",
                                RegisterValidate(email, name, password))]
    ELSE LET c == CreateUser(tab, ToLower(TrimSpace(email)),
                             GenerateFromPassword(password, bcryptCost),
                             TrimSpace(name), "user")
         IN  IF c.err = "23505"
             THEN [tab |-> tab,
                   resp |-> respondError("register", StatusConflict,
                                         "Email already registered", {})]
             ELSE [tab |-> c.tab,
                   resp |-> respondSuccess("register", StatusCreated,
                                           "User registered successfully",
                                           UserResponse(c.row))]

Register(okJSON, email, name, password) ==
    /\ proc = "serving"
    /\ users' = RegisterResult(users, okJSON, email, name, password).tab
    /\ resp' = RegisterResult(users, okJSON, email, name, password).resp
    /\ UNCHANGED <<proc, cfg, refresh_tokens, now, entropy, pc, tokenHash, storedToken,
                   presented, late, issuedLog, redeemed, rotated, loggedOut>>

\* AuthHandler.Login up to the password check (auth.go 88-117)
\* faulty variant: an unknown email is answered with a message of its own
LoginCheckUserNotFound(tab, okJSON, email, password) ==
    IF ~okJSON
    THEN [ok |-> FALSE, user |-> NoUser,
          resp |-> respondError("login", StatusBadRequest, "Invalid request body", {})]
    ELSE IF LoginValidate(email, password) # {}
    THEN [ok |-> FALSE, user |-> NoUser,
          resp |-> respondError("login", StatusBadRequest, "Validation failed",
                                LoginValidate(email, password))]
    ELSE LET r == GetUserByEmail(tab, ToLower(TrimSpace(email)))
         IN  IF r.err = "sql.ErrNoRows"
             THEN [ok |-> FALSE, user |-> NoUser,
                   resp |-> respondError("login", StatusUnauthorized, "User not found", {})]
             ELSE IF ~CompareHashAndPassword(r.row.password_hash, password)
             THEN [ok |-> FALSE, user |-> NoUser,
                   resp |-> respondError("login", StatusUnauthorized,
                                         "Invalid email or password", {})]
             ELSE [ok |-> TRUE, user |-> r.row,
                   resp |-> respondSuccess("login", StatusOK, "Login successful", NoData)]

\* faulty variant: the password is not compared, a known email is enough
LoginCheckAnyPassword(tab, okJSON, email, password) ==
    IF ~okJSON
    THEN [ok |-> FALSE, user |-> NoUser,
          resp |-> respondError("login", StatusBadRequest, "Invalid request body", {})]
    ELSE IF LoginValidate(email, password) # {}
    THEN [ok |-> FALSE, user |-> NoUser,
          resp |-> respondError("login", StatusBadRequest, "Validation failed",
                                LoginValidate(email, password))]
    ELSE LET r == GetUserByEmail(tab, ToLower(TrimSpace(email)))
         IN  IF r.err = "sql.ErrNoRows"
             THEN [ok |-> FALSE, user |-> NoUser,
                   resp |-> respondError("login", StatusUnauthorized,
                                         "Invalid email or password", {})]
             ELSE [ok |-> TRUE, user |-> r.row,
                   resp |-> respondSuccess("login", StatusOK, "Login successful", NoData)]

LoginCheck(tab, okJSON, email, password) ==
    IF ~okJSON
    THEN [ok |-> FALSE, user |-> NoUser,
          resp |-> respondError("login", StatusBadRequest, "Invalid request body", {})]
    ELSE IF LoginValidate(email, password) # {}
    THEN [ok |-> FALSE, user |-> NoUser,
          resp |-> respondError("login", StatusBadRequest, "Validation failed",
                                LoginValidate(email, password))]
    ELSE LET r == GetUserByEmail(tab, ToLower(TrimSpace(email)))
         IN  IF r.err = "sql.ErrNoRows"
             THEN [ok |-> FALSE, user |-> NoUser,
                   resp |-> respondError("login", StatusUnauthorized,
                                         "Invalid email or password", {})]
             ELSE IF ~CompareHashAndPassword(r.row.password_hash, password)
             THEN [ok |-> FALSE, user |-> NoUser,
                   resp |-> respondError("login", StatusUnauthorized,
                                         "Invalid email or password", {})]
             ELSE [ok |-> TRUE, user |-> r.row,
                   resp |-> respondSuccess("login", StatusOK, "Login successful", NoData)]

\* faulty variant: the duration is reported without the conversion to seconds
LoginResponseNoSeconds(m, accessToken, rawRefreshToken, user) ==
    [kind |-> "login", access_token |-> accessToken, refresh_token |-> rawRefreshToken,
     token_type |-> "Bearer", expires_in |-> GetAccessTokenExpiry(m),
     user |-> UserResponse(user)]

\* the calls Login makes up to its authentication decision, in order
LoginSteps(tab, okJSON, email, password) ==
    IF ~okJSON
    THEN <<"json.Decode", "respondError">>
    ELSE IF LoginValidate(email, password) # {}
    THEN <<"json.Decode", "Validate", "respondError">>
    ELSE LET r == GetUserByEmail(tab, ToLower(TrimSpace(email)))
         IN  IF r.err = "sql.ErrNoRows"
             THEN <<"json.Decode", "Validate", "GetUserByEmail", "respondError">>
             ELSE IF ~CompareHashAndPassword(r.row.password_hash, password)
             THEN <<"json.Decode", "Validate", "GetUserByEmail",
                    "bcrypt.CompareHashAndPassword", "respondError">>
             ELSE <<"json.Decode", "Validate", "GetUserByEmail",
                    "bcrypt.CompareHashAndPassword">>

\* model.LoginResponse
LoginResponse(m, accessToken, rawRefreshToken, user) ==
    [kind |-> "login", access_token |-> accessToken, refresh_token |-> rawRefreshToken,
     token_type |-> "Bearer", expires_in |-> Seconds(GetAccessTokenExpiry(m)),
     user |-> UserResponse(user)]

Login(okJSON, email, password) ==
    LET c == LoginCheck(users, okJSON, email, password)
        accessToken == GenerateAccessToken(jwtManager, c.user.id, c.user.email,
                                           c.user.role, now)
        r == GenerateRefreshToken(jwtManager, entropy, now)
    IN  /\ proc = "serving"
        /\ IF ~c.ok
           THEN /\ resp' = c.resp
                /\ UNCHANGED <<proc, cfg, users, refresh_tokens, now, entropy, pc, tokenHash,
                               storedToken, presented, late, issuedLog, redeemed, rotated, loggedOut>>
           ELSE /\ entropy <= MaxTokens
                /\ entropy' = entropy + 1
                /\ refresh_tokens' = CreateRefreshToken(refresh_tokens, c.user.id,
                                                        r.tokenHash, r.expiresAt, now)
                /\ resp' = respondSuccess("login", StatusOK, "Login successful",
                                          LoginResponse(jwtManager, accessToken,
                                                        r.rawToken, c.user))
                /\ issuedLog' = Append(issuedLog,
                                       [via |-> "login", user_id |-> c.user.id, at |-> now,
                                        access |-> accessToken, refresh |-> r.rawToken])
                /\ UNCHANGED <<proc, cfg, users, now, pc, tokenHash, storedToken, presented,
                               late, redeemed, rotated, loggedOut>>

\* AuthHandler.Refresh up to the lookup (auth.go 165-190): decode, validate, hash, SELECT
RefreshCheck(tab, okJSON, rawToken, t) ==
    IF ~okJSON
    THEN [ok |-> FALSE, row |-> NoToken,
          resp |-> respondError("refresh", StatusBadRequest, "Invalid request body", {})]
    ELSE IF RefreshValidate(rawToken) # {}
    THEN [ok |-> FALSE, row |-> NoToken,
          resp |-> respondError("refresh", StatusBadRequest, "Validation failed",
                                RefreshValidate(rawToken))]
    ELSE LET r == GetRefreshTokenByHash(tab, HashRefreshToken(rawToken), t)
         IN  IF r.err = "sql.ErrNoRows"
             THEN [ok |-> FALSE, row |-> NoToken,
                   resp |-> respondError("refresh", StatusUnauthorized,
                                         "Invalid or expired refresh token", {})]
             ELSE [ok |-> TRUE, row |-> r.row,
                   resp |-> respondSuccess("refresh", StatusOK, "", NoData)]

\* faulty variant: a refused token is revoked on the way out
RefreshBeginRevokingRefused(w, okJSON, rawToken) ==
    LET c == RefreshCheck(refresh_tokens, okJSON, rawToken, now)
    IN  /\ proc = "serving"
        /\ pc[w] = "idle"
        /\ \A v \in Workers : v < w => pc[v] # "idle"
        /\ IF ~c.ok
           THEN /\ resp' = [c.resp EXCEPT !.req = rawToken,
                                          !.late = rawToken \in RedeemedSet]
                /\ refresh_tokens' = RevokeRefreshToken(refresh_tokens,
                                                        HashRefreshToken(rawToken), now)
                /\ UNCHANGED <<pc, tokenHash, storedToken, presented, late>>
           ELSE /\ pc' = [pc EXCEPT ![w] = "revoke"]
                /\ tokenHash' = [tokenHash EXCEPT ![w] = HashRefreshToken(rawToken)]
                /\ storedToken' = [storedToken EXCEPT ![w] = c.row]
                /\ presented' = [presented EXCEPT ![w] = rawToken]
                /\ late' = [late EXCEPT ![w] = rawToken \in RedeemedSet]
                /\ UNCHANGED <<resp, refresh_tokens>>
        /\ UNCHANGED <<proc, cfg, users, now, entropy, issuedLog, redeemed,
                       rotated, loggedOut>>

RefreshBegin(w, okJSON, rawToken) ==
    LET c == RefreshCheck(refresh_tokens, okJSON, rawToken, now)
    IN  /\ proc = "serving"
        /\ pc[w] = "idle"
        /\ \A v \in Workers : v < w => pc[v] # "idle"
        /\ IF ~c.ok
           THEN /\ resp' = [c.resp EXCEPT !.req = rawToken,
                                          !.late = rawToken \in RedeemedSet]
                /\ UNCHANGED <<pc, tokenHash, storedToken, presented, late>>
           ELSE /\ pc' = [pc EXCEPT ![w] = "revoke"]
                /\ tokenHash' = [tokenHash EXCEPT ![w] = HashRefreshToken(rawToken)]
                /\ storedToken' = [storedToken EXCEPT ![w] = c.row]
                /\ presented' = [presented EXCEPT ![w] = rawToken]
                /\ late' = [late EXCEPT ![w] = rawToken \in RedeemedSet]
                /\ UNCHANGED resp
        /\ UNCHANGED <<proc, cfg, users, refresh_tokens, now, entropy, issuedLog, redeemed,
                       rotated, loggedOut>>

\* faulty variant: the rotation UPDATE is put off until after the replacement is made
RefreshRevokeDeferred(w) ==
    /\ proc = "serving"
    /\ pc[w] = "revoke"
    /\ pc' = [pc EXCEPT ![w] = "issue"]
    /\ rotated' = rotated \cup {presented[w]}
    /\ UNCHANGED <<proc, cfg, users, refresh_tokens, now, entropy, tokenHash, storedToken,
                   presented, late, resp, issuedLog, redeemed, loggedOut>>

\* auth.go 192-196: UPDATE (rotation)
RefreshRevoke(w) ==
    /\ proc = "serving"
    /\ pc[w] = "revoke"
    /\ refresh_tokens' = RevokeRefreshToken(refresh_tokens, tokenHash[w], now)
    /\ pc' = [pc EXCEPT ![w] = "issue"]
    /\ rotated' = rotated \cup {presented[w]}
    /\ UNCHANGED <<proc, cfg, users, now, entropy, tokenHash, storedToken, presented, late,
                   resp, issuedLog, redeemed, loggedOut>>

\* model.RefreshResponse
RefreshResponse(m, accessToken, rawRefreshToken) ==
    [kind |-> "refresh", access_token |-> accessToken, refresh_token |-> rawRefreshToken,
     token_type |-> "Bearer", expires_in |-> Seconds(GetAccessTokenExpiry(m))]

\* auth.go 198-240: SELECT the user, generate both tokens, INSERT, respond
RefreshIssue(w) ==
    LET u == GetUserByID(users, storedToken[w].user_id)
        accessToken == GenerateAccessToken(jwtManager, u.row.id, u.row.email,
                                           u.row.role, now)
        r == GenerateRefreshToken(jwtManager, entropy, now)
    IN  /\ proc = "serving"
        /\ pc[w] = "issue"
        /\ pc' = [pc EXCEPT ![w] = "idle"]
        /\ tokenHash' = [tokenHash EXCEPT ![w] = IdleHash]
        /\ storedToken' = [storedToken EXCEPT ![w] = NoToken]
        /\ presented' = [presented EXCEPT ![w] = BlankToken]
        /\ late' = [late EXCEPT ![w] = FALSE]
        /\ IF u.err # "nil"
           THEN /\ resp' = [respondError("refresh", StatusInternalServerError,
                                         "Failed to fetch user", {})
                             EXCEPT !.req = presented[w], !.late = late[w]]
                /\ UNCHANGED <<refresh_tokens, entropy, issuedLog, redeemed>>
           ELSE /\ entropy <= MaxTokens
                /\ entropy' = entropy + 1
                /\ refresh_tokens' = CreateRefreshToken(refresh_tokens,
                                                        storedToken[w].user_id,
                                                        r.tokenHash, r.expiresAt, now)
                /\ resp' = [respondSuccess("refresh", StatusOK,
                                           "Token refreshed successfully",
                                           RefreshResponse(jwtManager, accessToken,
                                                           r.rawToken))
                            EXCEPT !.req = presented[w], !.late = late[w]]
                /\ issuedLog' = Append(issuedLog,
                                       [via |-> "refresh", at |-> now,
                                        user_id |-> storedToken[w].user_id,
                                        access |-> accessToken, refresh |-> r.rawToken])
                /\ redeemed' = Append(redeemed, presented[w])
        /\ UNCHANGED <<proc, cfg, users, now, rotated, loggedOut>>

\* ------------------------------------------------------ protected routes
\* access tokens handed out so far
IssuedAccess == {issuedLog[i].access : i \in 1..Len(issuedLog)}

\* what a client without the secret can build: text that is no JWT, tokens signed
\* with another key or not at all, and issued tokens with the header or a claim changed
Forge(alg, key, claims) ==
    [form |-> "jwt", alg |-> alg, claims |-> claims, mac |-> HMAC(key, alg, claims)]

AttackerClaims(exp) ==
    [user_id |-> 1, email |-> EmailA, role |-> "admin", exp |-> exp, iat |-> 0,
     nbf |-> 0, iss |-> "bamboo-mapper", sub |-> 1]

GarbageToken == [form |-> "garbage", alg |-> "", claims |-> NoClaims,
                 mac |-> HMAC("", "", NoClaims)]

ForgedTokens ==
    {GarbageToken, Forge("none", "", AttackerClaims(MaxTime + 1)),
     Forge("none", "", AttackerClaims(0)), Forge("RS256", "attacker-key", AttackerClaims(0)),
     Forge("XX", "attacker-key", AttackerClaims(MaxTime + 1)),
     Forge("HS256", "attacker-key", AttackerClaims(0))}
    \cup {[tok EXCEPT !.alg = "none"] : tok \in IssuedAccess}
    \cup {[tok EXCEPT !.claims.exp = MaxTime + 1] : tok \in IssuedAccess}

GateTokens == IssuedAccess \cup ForgedTokens

\* every Authorization value the claims range over
AllHeaders ==
    {<<>>, <<"Bearer">>, <<"Basic", GarbageToken>>}
    \cup {<<"Bearer", tok>> : tok \in GateTokens}
    \cup {<<"bearer", tok>> : tok \in IssuedAccess}
\* the values clients send in the runs explored
Headers == {<<>>} \cup {<<"Bearer", tok>> : tok \in IssuedAccess}

\* AuthHandler.GetMe behind JWTAuth
GetMe(header) ==
    LET g == JWTAuth(jwtManager, "me", header, now)
        u == GetUserByID(users, g.claims.user_id)
    IN  /\ proc = "serving"
        /\ resp' = [(IF ~g.next THEN g.resp
                     ELSE IF u.err = "sql.ErrNoRows"
                     THEN respondError("me", StatusUnauthorized, "User not found", {})
                     ELSE respondSuccess("me", StatusOK, "User retrieved successfully",
                                         UserResponse(u.row)))
                    EXCEPT !.req = header]
        /\ UNCHANGED <<proc, cfg, users, refresh_tokens, now, entropy, pc, tokenHash,
                       storedToken, presented, late, issuedLog, redeemed, rotated,
                       loggedOut>>

\* raw refresh tokens issued so far to a user
IssuedTo(user_id) ==
    {issuedLog[i].refresh : i \in {j \in 1..Len(issuedLog) : issuedLog[j].user_id = user_id}}

\* AuthHandler.Logout behind JWTAuth: revoke every session of the caller
Logout(header) ==
    LET g == JWTAuth(jwtManager, "logout", header, now)
    IN  /\ proc = "serving"
        /\ IF ~g.next
           THEN /\ resp' = g.resp
                /\ UNCHANGED <<proc, cfg, users, refresh_tokens, now, entropy, pc, tokenHash,
                               storedToken, presented, late, issuedLog, redeemed, rotated,
                               loggedOut>>
           ELSE /\ refresh_tokens' = RevokeAllUserRefreshTokens(refresh_tokens,
                                                                g.claims.user_id, now)
                /\ resp' = [respondSuccess("logout", StatusOK, "Logged out successfully",
                                           NoData)
                            EXCEPT !.req = header]
                /\ loggedOut' = loggedOut \cup IssuedTo(g.claims.user_id)
                /\ UNCHANGED <<proc, cfg, users, now, entropy, pc, tokenHash, storedToken,
                               presented, late, issuedLog, redeemed, rotated>>

\* the DeleteExpiredRefreshTokens statement, run by maintenance
Cleanup ==
    /\ refresh_tokens' = DeleteExpiredRefreshTokens(refresh_tokens, now)
    /\ UNCHANGED <<proc, cfg, users, now, entropy, pc, tokenHash, storedToken, presented,
                   late, resp, issuedLog, redeemed, rotated, loggedOut>>

\* faulty variant: the server starts whatever the secret is
MainNoSecretCheck ==
    /\ proc = "starting"
    /\ proc' = "serving"
    /\ UNCHANGED <<cfg, users, refresh_tokens, now, entropy, pc, tokenHash, storedToken,
                   presented, late, resp, issuedLog, redeemed, rotated, loggedOut>>

\* main, from the loaded configuration to ListenAndServe: log.Fatal on an empty
\* JWT_SECRET, before the JWT manager and the router exist
Main ==
    /\ proc = "starting"
    /\ proc' = IF cfg.JWTSecret = "" THEN "exited" ELSE "serving"
    /\ UNCHANGED <<cfg, users, refresh_tokens, now, entropy, pc, tokenHash, storedToken,
                   presented, late, resp, issuedLog, redeemed, rotated, loggedOut>>

\* ------------------------------------------------------------ failing steps
\* the calls of Login and Refresh that can return an error other than sql.ErrNoRows:
\* the store's statements (connection lost, statement timeout) and the generators
LoginFaultSteps ==
    {"GetUserByEmail", "GenerateAccessToken", "GenerateRefreshToken", "CreateRefreshToken"}
RefreshIssueFaultSteps ==
    {"GetUserByID", "GenerateAccessToken", "GenerateRefreshToken", "CreateRefreshToken"}
RefreshFaultSteps ==
    {"GetRefreshTokenByHash", "RevokeRefreshToken"} \cup RefreshIssueFaultSteps

\* faulty variant: a store error at the user lookup is answered as a wrong login
LoginFailureResponseAs401(step) ==
    IF step = "GetUserByEmail"
    THEN respondError("login", StatusUnauthorized, "Invalid email or password", {})
    ELSE respondError("login", StatusInternalServerError,
                      IF step = "CreateRefreshToken" THEN "Failed to create session"
                      ELSE "Failed to generate token", {})

\* Login's answer when the step fails
LoginFailureResponse(step) ==
    respondError("login", StatusInternalServerError,
                 CASE step = "GetUserByEmail" -> "Failed to process login"
                   [] step = "GenerateAccessToken" -> "Failed to generate token"
                   [] step = "GenerateRefreshToken" -> "Failed to generate token"
                   [] step = "CreateRefreshToken" -> "Failed to create session",
                 {})

\* Refresh's answer when the step fails
RefreshFailureResponse(step) ==
    respondError("refresh", StatusInternalServerError,
                 CASE step = "GetRefreshTokenByHash" -> "Failed to validate token"
                   [] step = "RevokeRefreshToken" -> "Failed to process refresh"
                   [] step = "GetUserByID" -> "Failed to fetch user"
                   [] step = "GenerateAccessToken" -> "Failed to generate token"
                   [] step = "GenerateRefreshToken" -> "Failed to generate token"
                   [] step = "CreateRefreshToken" -> "Failed to create session",
                 {})

\* Login in which the step fails: the call has come as far as the step, answers
\* 500 and returns; nothing was written before CreateRefreshToken
LoginFailure(okJSON, email, password, step) ==
    LET c == LoginCheck(users, okJSON, email, password)
    IN  /\ proc = "serving"
        /\ okJSON
        /\ LoginValidate(email, password) = {}
        /\ step # "GetUserByEmail" => c.ok
        /\ resp' = LoginFailureResponse(step)
        /\ UNCHANGED <<proc, cfg, users, refresh_tokens, now, entropy, pc, tokenHash,
                       storedToken, presented, late, issuedLog, redeemed, rotated,
                       loggedOut>>

\* Refresh in which the lookup fails with a store error
RefreshBeginFailure(w, okJSON, rawToken) ==
    /\ proc = "serving"
    /\ pc[w] = "idle"
    /\ \A v \in Workers : v < w => pc[v] # "idle"
    /\ okJSON
    /\ RefreshValidate(rawToken) = {}
    /\ resp' = [RefreshFailureResponse("GetRefreshTokenByHash")
                EXCEPT !.req = rawToken, !.late = rawToken \in RedeemedSet]
    /\ UNCHANGED <<proc, cfg, users, refresh_tokens, now, entropy, pc, tokenHash,
                   storedToken, presented, late, issuedLog, redeemed, rotated, loggedOut>>

\* Refresh in which the rotation UPDATE fails: the row stays as it was
RefreshRevokeFailure(w) ==
    /\ proc = "serving"
    /\ pc[w] = "revoke"
    /\ pc' = [pc EXCEPT ![w] = "idle"]
    /\ tokenHash' = [tokenHash EXCEPT ![w] = IdleHash]
    /\ storedToken' = [storedToken EXCEPT ![w] = NoToken]
    /\ presented' = [presented EXCEPT ![w] = BlankToken]
    /\ late' = [late EXCEPT ![w] = FALSE]
    /\ resp' = [RefreshFailureResponse("RevokeRefreshToken")
                EXCEPT !.req = presented[w], !.late = late[w]]
    /\ UNCHANGED <<proc, cfg, users, refresh_tokens, now, entropy, issuedLog, redeemed,
                   rotated, loggedOut>>

\* Refresh in which a step after the rotation UPDATE fails: the call answers 500
\* and returns, the UPDATE is not undone and no row is inserted
RefreshIssueFailure(w, step) ==
    /\ proc = "serving"
    /\ pc[w] = "issue"
    /\ step \in RefreshIssueFaultSteps
    /\ step # "GetUserByID" => GetUserByID(users, storedToken[w].user_id).err = "nil"
    /\ pc' = [pc EXCEPT ![w] = "idle"]
    /\ tokenHash' = [tokenHash EXCEPT ![w] = IdleHash]
    /\ storedToken' = [storedToken EXCEPT ![w] = NoToken]
    /\ presented' = [presented EXCEPT ![w] = BlankToken]
    /\ late' = [late EXCEPT ![w] = FALSE]
    /\ resp' = [RefreshFailureResponse(step) EXCEPT !.req = presented[w], !.late = late[w]]
    /\ UNCHANGED <<proc, cfg, users, refresh_tokens, now, entropy, issuedLog, redeemed,
                   rotated, loggedOut>>

\* the roles and addresses an operator gives an account directly in the users table;
\* no endpoint writes them after registration
RoleInputs == {"user", "admin"}
StoredEmails == {EmailA, EmailX}

\* an UPDATE of a users row made outside the handlers (email stays UNIQUE)
UpdateUser(id, email, role) ==
    /\ id \in 1..Len(users)
    /\ <<email, role>> # <<users[id].email, users[id].role>>
    /\ \A i \in 1..Len(users) : users[i].email = email => i = id
    /\ users' = [users EXCEPT ![id].email = email, ![id].role = role]
    /\ UNCHANGED <<proc, cfg, refresh_tokens, now, entropy, pc, tokenHash, storedToken,
                   presented, late, resp, issuedLog, redeemed, rotated, loggedOut>>

\* the clock advances
Tick ==
    /\ now < MaxTime
    /\ now' = now + 1
    /\ UNCHANGED <<proc, cfg, users, refresh_tokens, entropy, pc, tokenHash, storedToken,
                   presented, late, resp, issuedLog, redeemed, rotated, loggedOut>>

\* ------------------------------------------------------- specification
\* config.Load, then main: tables empty, no request in progress
Init ==
    /\ cfg = [JWTSecret |-> SecretKey, AccessTokenExpiry |-> AccessTokenExpiry,
              RefreshTokenExpiry |-> RefreshTokenExpiry]
    /\ proc = "serving"
    /\ users = <<>>
    /\ refresh_tokens = <<>>
    /\ now = 0
    /\ entropy = 1
    /\ pc = [w \in Workers |-> "idle"]
    /\ tokenHash = [w \in Workers |-> IdleHash]
    /\ storedToken = [w \in Workers |-> NoToken]
    /\ presented = [w \in Workers |-> BlankToken]
    /\ late = [w \in Workers |-> FALSE]
    /\ resp = respondSuccess("none", StatusOK, "", NoData)
    /\ issuedLog = <<>>
    /\ redeemed = <<>>
    /\ rotated = {}
    /\ loggedOut = {}

\* Requests arrive in any order; one Refresh call at a time is in progress, and
\* every other request, and the clock, interleave with its three statements.
Next ==
    \/ \E r \in RegisterRequests : Register(r.okJSON, r.email, r.name, r.password)
    \/ \E r \in LoginRequests : Login(r.okJSON, r.email, r.password)
    \/ \E r \in RefreshRequests : RefreshBegin(1, r.okJSON, r.refresh_token)
    \/ RefreshRevoke(1)
    \/ RefreshIssue(1)
    \/ \E header \in Headers : GetMe(header)
    \/ \E header \in Headers : Logout(header)
    \/ Tick

Spec == Init /\ [][Next]_vars

\* Several Refresh calls in progress at once, each on its own goroutine, with the
\* clock standing still.
NextConcurrent ==
    \/ \E r \in RegisterRequests : Register(r.okJSON, r.email, r.name, r.password)
    \/ \E r \in LoginRequests : Login(r.okJSON, r.email, r.password)
    \/ \E w \in Workers, r \in RefreshRequests : RefreshBegin(w, r.okJSON, r.refresh_token)
    \/ \E w \in Workers : RefreshRevoke(w)
    \/ \E w \in Workers : RefreshIssue(w)
    \/ \E header \in Headers : Logout(header)

SpecConcurrent == Init /\ [][NextConcurrent]_vars

\* The auth gate on its own: any Authorization value against the tokens Login has
\* handed out, under a manager whose access tokens last and one whose access
\* tokens are issued already expired.
InitGate ==
    /\ cfg \in {[JWTSecret |-> SecretKey, AccessTokenExpiry |-> a,
                  RefreshTokenExpiry |-> RefreshTokenExpiry] :
                 a \in {AccessTokenExpiry, NegativeAccessTokenExpiry}}
    /\ proc = "serving"
    /\ users = <<>>
    /\ refresh_tokens = <<>>
    /\ now = 0
    /\ entropy = 1
    /\ pc = [w \in Workers |-> "idle"]
    /\ tokenHash = [w \in Workers |-> IdleHash]
    /\ storedToken = [w \in Workers |-> NoToken]
    /\ presented = [w \in Workers |-> BlankToken]
    /\ late = [w \in Workers |-> FALSE]
    /\ resp = respondSuccess("none", StatusOK, "", NoData)
    /\ issuedLog = <<>>
    /\ redeemed = <<>>
    /\ rotated = {}
    /\ loggedOut = {}

NextGate ==
    \/ \E r \in RegisterRequests : Register(r.okJSON, r.email, r.name, r.password)
    \/ \E r \in LoginRequests : Login(r.okJSON, r.email, r.password)
    \/ \E header \in AllHeaders : GetMe(header)
    \/ Tick

SpecGate == InitGate /\ [][NextGate]_vars

\* The store with its housekeeping statement: DeleteExpiredRefreshTokens runs at any
\* moment between the requests and between the statements of a Refresh call.
\* Clients present the refresh tokens and the access tokens they were given.
NextCleanup ==
    \/ \E r \in RegisterRequests : Register(r.okJSON, r.email, r.name, r.password)
    \/ \E r \in SessionLoginRequests : Login(r.okJSON, r.email, r.password)
    \/ \E r \in RefreshRequests :
          r.refresh_token.n <= MaxTokens /\ RefreshBegin(1, r.okJSON, r.refresh_token)
    \/ RefreshRevoke(1)
    \/ RefreshIssue(1)
    \/ \E header \in Headers : Len(header) = 2 /\ Logout(header)
    \/ Cleanup
    \/ Tick

\* sessions last half a second: alive in the second they begin in, expired after it
InitCleanup ==
    /\ cfg = [JWTSecret |-> SecretKey, AccessTokenExpiry |-> AccessTokenExpiry,
              RefreshTokenExpiry |-> ShortRefreshTokenExpiry]
    /\ proc = "serving"
    /\ users = <<>>
    /\ refresh_tokens = <<>>
    /\ now = 0
    /\ entropy = 1
    /\ pc = [w \in Workers |-> "idle"]
    /\ tokenHash = [w \in Workers |-> IdleHash]
    /\ storedToken = [w \in Workers |-> NoToken]
    /\ presented = [w \in Workers |-> BlankToken]
    /\ late = [w \in Workers |-> FALSE]
    /\ resp = respondSuccess("none", StatusOK, "", NoData)
    /\ issuedLog = <<>>
    /\ redeemed = <<>>
    /\ rotated = {}
    /\ loggedOut = {}

SpecCleanup == InitCleanup /\ [][NextCleanup]_vars

\* The account endpoints on their own, with every request body.
NextAccounts ==
    \/ \E r \in AccountRegisterRequests : Register(r.okJSON, r.email, r.name, r.password)
    \/ \E r \in AllLoginRequests : Login(r.okJSON, r.email, r.password)

SpecAccounts == Init /\ [][NextAccounts]_vars

\* The process from its start: main reads the environment, then serves.
NextStartup ==
    \/ Main
    \/ \E r \in RegisterRequests : Register(r.okJSON, r.email, r.name, r.password)
    \/ \E r \in SessionLoginRequests : Login(r.okJSON, r.email, r.password)
    \/ \E r \in RefreshRequests :
          r.refresh_token.n <= MaxTokens /\ RefreshBegin(1, r.okJSON, r.refresh_token)
    \/ RefreshRevoke(1)
    \/ RefreshIssue(1)
    \/ \E header \in AllHeaders : GetMe(header)

InitStartup ==
    /\ cfg \in {Load(env) : env \in Envs}
    /\ proc = "starting"
    /\ users = <<>>
    /\ refresh_tokens = <<>>
    /\ now = 0
    /\ entropy = 1
    /\ pc = [w \in Workers |-> "idle"]
    /\ tokenHash = [w \in Workers |-> IdleHash]
    /\ storedToken = [w \in Workers |-> NoToken]
    /\ presented = [w \in Workers |-> BlankToken]
    /\ late = [w \in Workers |-> FALSE]
    /\ resp = respondSuccess("none", StatusOK, "", NoData)
    /\ issuedLog = <<>>
    /\ redeemed = <<>>
    /\ rotated = {}
    /\ loggedOut = {}

SpecStartup == InitStartup /\ [][NextStartup]_vars

\* Sessions of an account whose row changes under them.
NextProfile ==
    \/ \E r \in RegisterRequests : Register(r.okJSON, r.email, r.name, r.password)
    \/ \E r \in SessionLoginRequests : Login(r.okJSON, r.email, r.password)
    \/ \E r \in RefreshRequests :
          r.refresh_token.n <= MaxTokens /\ RefreshBegin(1, r.okJSON, r.refresh_token)
    \/ RefreshRevoke(1)
    \/ RefreshIssue(1)
    \/ \E id \in 1..Len(users), e \in StoredEmails, role \in RoleInputs :
          UpdateUser(id, e, role)

SpecProfile == Init /\ [][NextProfile]_vars

\* The handlers over a store and generators that can fail.
NextFaults ==
    \/ \E r \in RegisterRequests : Register(r.okJSON, r.email, r.name, r.password)
    \/ \E r \in LoginRequests : Login(r.okJSON, r.email, r.password)
    \/ \E r \in SessionLoginRequests, step \in LoginFaultSteps :
          LoginFailure(r.okJSON, r.email, r.password, step)
    \/ \E r \in RefreshRequests :
          r.refresh_token.n <= MaxTokens /\ RefreshBegin(1, r.okJSON, r.refresh_token)
    \/ \E r \in RefreshRequests :
          r.refresh_token.n <= MaxTokens /\ RefreshBeginFailure(1, r.okJSON, r.refresh_token)
    \/ RefreshRevoke(1)
    \/ RefreshRevokeFailure(1)
    \/ RefreshIssue(1)
    \/ \E step \in RefreshIssueFaultSteps : RefreshIssueFailure(1, step)

SpecFaults == Init /\ [][NextFaults]_vars

\* Sessions against which every kind of Refresh body is sent.
NextRejected ==
    \/ \E r \in RegisterRequests : Register(r.okJSON, r.email, r.name, r.password)
    \/ \E r \in SessionLoginRequests : Login(r.okJSON, r.email, r.password)
    \/ \E r \in AllRefreshRequests : RefreshBegin(1, r.okJSON, r.refresh_token)
    \/ RefreshRevoke(1)
    \/ RefreshIssue(1)
    \/ \E header \in Headers : Len(header) = 2 /\ Logout(header)
    \/ Tick

SpecRejected == Init /\ [][NextRejected]_vars

\* Two users with sessions side by side.
NextTwoUsers ==
    \/ \E r \in TwoUserRegisterRequests : Register(r.okJSON, r.email, r.name, r.password)
    \/ \E r \in TwoUserLoginRequests : Login(r.okJSON, r.email, r.password)
    \/ \E r \in RefreshRequests :
          r.refresh_token.n <= MaxTokens /\ RefreshBegin(1, r.okJSON, r.refresh_token)
    \/ RefreshRevoke(1)
    \/ RefreshIssue(1)
    \/ \E header \in Headers : Len(header) = 2 /\ Logout(header)

SpecTwoUsers == Init /\ [][NextTwoUsers]_vars

\* Two accounts, Login bodies of every kind, and Refresh.
NextIssuance ==
    \/ \E r \in TwoUserRegisterRequests : Register(r.okJSON, r.email, r.name, r.password)
    \/ \E r \in IssuanceLoginRequests : Login(r.okJSON, r.email, r.password)
    \/ \E r \in RefreshRequests :
          r.refresh_token.n <= MaxTokens /\ RefreshBegin(1, r.okJSON, r.refresh_token)
    \/ RefreshRevoke(1)
    \/ RefreshIssue(1)

SpecIssuance == Init /\ [][NextIssuance]_vars

\* =================================================================== claims
InvalidRefresh401 ==
    respondError("refresh", StatusUnauthorized, "Invalid or expired refresh token", {})

\* the entry of the log that handed out a raw refresh token
IssuedRaw == {issuedLog[i].refresh : i \in 1..Len(issuedLog)}
EntryOf(rawToken) == issuedLog[CHOOSE i \in 1..Len(issuedLog) : issuedLog[i].refresh = rawToken]

\* C1: once a Refresh call presenting token t has answered 200, a Refresh call
\* presenting t that begins afterwards is answered 401 "Invalid or expired refresh
\* token": it never gets past the lookup, whatever requests came in between.
C1_SingleUse ==
    /\ \A t \in RedeemedSet :
          RefreshCheck(refresh_tokens, TRUE, t, now).resp = InvalidRefresh401
    /\ \A w \in Workers : ~late[w]
    /\ (resp.op = "refresh" /\ resp.late) =>
          (resp.status = StatusUnauthorized
           /\ resp.message = "Invalid or expired refresh token")

\* C1 witness: a replay of a redeemed token has been answered 401
C1_Witness ==
    /\ resp.op = "refresh"
    /\ resp.late
    /\ resp.req \in RedeemedSet
    /\ resp.status = StatusUnauthorized

\* number of Refresh calls presenting t that answered 200
SuccessCount(t) == Cardinality({i \in 1..Len(redeemed) : redeemed[i] = t})

\* C2: of the Refresh calls that present the same active token concurrently, exactly
\* one answers 200: no token is redeemed by two calls.
C2_ExactlyOneConcurrentRefresh == \A t \in RedeemedSet : SuccessCount(t) = 1

\* a token that only a logout can have made unusable
OpenButForLogout(t) ==
    /\ t \in loggedOut
    /\ t \notin rotated
    /\ UnixMilli(now) < UnixMilli(EntryOf(t).at) + cfg.RefreshTokenExpiry

\* C3: after Logout(u) has completed, a Refresh call presenting any refresh token
\* issued to u before that logout is answered 401, for every session of u.
C3_LogoutFanOut ==
    \A t \in loggedOut :
        RefreshCheck(refresh_tokens, TRUE, t, now).resp = InvalidRefresh401

\* C3 witness: two sessions were open, one logout, and a Refresh with the token of
\* one of them has been answered 401
C3_Witness ==
    /\ resp.op = "refresh"
    /\ resp.status = StatusUnauthorized
    /\ OpenButForLogout(resp.req)
    /\ \E t \in loggedOut : t # resp.req /\ OpenButForLogout(t)

\* a token handed out that has neither expired nor been revoked by a Refresh or a Logout
Redeemable(e) ==
    /\ UnixMilli(now) < UnixMilli(e.at) + cfg.RefreshTokenExpiry
    /\ e.refresh \notin rotated
    /\ e.refresh \notin loggedOut

\* C4: a raw refresh token handed out by Login or Refresh, presented before its
\* expiry and before a Refresh or Logout revoked it, is found by its digest (the
\* record of the user it was issued to); the call then answers 200 with a new
\* access token and a new refresh token that differs from the one presented.
C4_RoundTrip ==
    /\ \A i \in 1..Len(issuedLog) :
          Redeemable(issuedLog[i]) =>
            LET c == RefreshCheck(refresh_tokens, TRUE, issuedLog[i].refresh, now)
            IN  c.ok /\ c.row.user_id = issuedLog[i].user_id
    /\ \A w \in Workers :
          pc[w] # "idle" => presented[w] \in IssuedRaw /\ tokenHash[w] = Sha256Hex(presented[w])
    /\ resp.op = "refresh" =>
          \/ resp.status = StatusUnauthorized /\ resp.data = NoData
          \/ /\ resp.status = StatusOK
             /\ resp.req \in IssuedRaw
             /\ resp.data.refresh_token \in IssuedRaw
             /\ resp.data.refresh_token # resp.req
             /\ resp.data.access_token \in {issuedLog[i].access : i \in 1..Len(issuedLog)}
             /\ EntryOf(resp.data.refresh_token).user_id = EntryOf(resp.req).user_id

\* C4 witness: a token handed out by Login has been redeemed
C4_Witness ==
    /\ resp.op = "refresh"
    /\ resp.status = StatusOK
    /\ EntryOf(resp.req).via = "login"

LoginEntries == {i \in 1..Len(issuedLog) : issuedLog[i].via = "login"}

\* C5: two successful Login calls never return the same (access token, refresh
\* token) pair, also when they are for the same user in the same clock second.
C5_DistinctLoginPairs ==
    \A i, j \in LoginEntries :
        i # j => <<issuedLog[i].access, issuedLog[i].refresh>>
                 # <<issuedLog[j].access, issuedLog[j].refresh>>

\* C5 witness: two logins of one user in the same second, whose access tokens coincide
C5_Witness ==
    \E i, j \in LoginEntries :
        /\ i # j
        /\ issuedLog[i].user_id = issuedLog[j].user_id
        /\ issuedLog[i].at = issuedLog[j].at
        /\ issuedLog[i].access = issuedLog[j].access

InvalidLogin401 ==
    respondError("login", StatusUnauthorized, "Invalid email or password", {})

\* a body that passes decoding and validation
WellFormedLogin(r) == r.okJSON /\ LoginValidate(r.email, r.password) = {}

\* the account a login body names, by the stored (trimmed, lower-cased) email
AccountsOf(r) == {i \in 1..Len(users) : users[i].email = ToLower(TrimSpace(r.email))}

WrongPasswordLogins ==
    {r \in AllLoginRequests :
        /\ WellFormedLogin(r)
        /\ \E i \in AccountsOf(r) : users[i].password_hash.of # r.password}

UnknownEmailLogins ==
    {r \in AllLoginRequests : WellFormedLogin(r) /\ AccountsOf(r) = {}}

\* C6: in every store state, Login with a registered email and a wrong password and
\* Login with an email that is not registered get the same answer: status 401,
\* message "Invalid email or password", no data, no details.
C6_LoginEnumerationResistance ==
    /\ \A r \in WrongPasswordLogins \cup UnknownEmailLogins :
          LET c == LoginCheck(users, r.okJSON, r.email, r.password)
          IN  ~c.ok /\ c.resp = InvalidLogin401
    /\ (resp.op = "login" /\ resp.status = StatusUnauthorized) => resp = InvalidLogin401

\* C6 witness: both kinds of failing login exist against a registered account, and
\* a Login has been answered 401
C6_Witness ==
    /\ WrongPasswordLogins # {}
    /\ UnknownEmailLogins # {}
    /\ resp = InvalidLogin401

\* the non-blank raw tokens a client can present, by what became of them
NeverIssued == {t \in RawTokenInputs : RefreshValidate(t) = {} /\ t \notin IssuedRaw}
ExpiredRaw ==
    {t \in IssuedRaw : UnixMilli(now) >= UnixMilli(EntryOf(t).at) + cfg.RefreshTokenExpiry}
RevokedRaw == rotated \cup loggedOut

\* C7: Refresh gives one and the same answer, 401 "Invalid or expired refresh
\* token" with no data, whether the presented token never existed, has expired, or
\* was revoked by a rotation or a logout.
C7_RefreshOpacity ==
    /\ \A t \in NeverIssued \cup ExpiredRaw \cup RevokedRaw :
          LET c == RefreshCheck(refresh_tokens, TRUE, t, now)
          IN  ~c.ok /\ c.resp = InvalidRefresh401
    /\ (resp.op = "refresh" /\ resp.status = StatusUnauthorized) =>
          [resp EXCEPT !.req = BlankToken, !.late = FALSE] = InvalidRefresh401

\* C7 witness: a token of each kind exists (one only expired, one only rotated, one
\* never issued) and a Refresh with one of them has been answered 401
C7_Witness ==
    /\ \E t \in ExpiredRaw : t \notin RevokedRaw
    /\ \E t \in rotated : t \notin ExpiredRaw
    /\ resp.op = "refresh"
    /\ resp.status = StatusUnauthorized
    /\ resp.req \in NeverIssued \cup ExpiredRaw \cup RevokedRaw

\* C8: an access token signed by GenerateAccessToken with the configured secret is
\* accepted by ValidateAccessToken, which returns its claims, exactly while now < exp;
\* from now >= exp on it is refused with ErrExpiredToken, never with ErrInvalidToken.
\* A token issued with a negative lifetime is expired from the moment it is issued.
C8_AccessTokenLifecycle ==
    /\ \A tok \in IssuedAccess :
          LET v == ValidateAccessToken(jwtManager, tok, now)
          IN  /\ tok.claims.exp * Second <= tok.claims.iat * Second + cfg.AccessTokenExpiry
              /\ tok.claims.iat * Second + cfg.AccessTokenExpiry < (tok.claims.exp + 1) * Second
              /\ IF now < tok.claims.exp
                 THEN v.err = "nil" /\ v.claims = tok.claims
                 ELSE v.err = "ErrExpiredToken" /\ v.claims = NoClaims
    /\ (resp.op = "me" /\ Len(resp.req) = 2 /\ resp.req[1] = "Bearer") =>
          (resp.req[2] \in IssuedAccess =>
             /\ resp.message # "Invalid token"
             /\ now < resp.req[2].claims.exp => resp.status = StatusOK
             /\ resp.status # StatusOK =>
                   resp.status = StatusUnauthorized /\ resp.message = "Token has expired")

\* C8 witness: with a negative lifetime configured, a token presented in the very
\* second it was issued has been refused as expired
C8_Witness ==
    /\ cfg.AccessTokenExpiry < 0
    /\ resp.op = "me"
    /\ resp.message = "Token has expired"
    /\ Len(resp.req) = 2
    /\ resp.req[2] \in IssuedAccess
    /\ resp.req[2].claims.iat = now

NonHMACTokens == {tok \in GateTokens : tok.form = "jwt" /\ tok.alg \notin HMACMethods}

\* C9: ValidateAccessToken refuses with ErrInvalidToken, and returns no claims for,
\* every token whose signing algorithm is not HS256/HS384/HS512 ("none", asymmetric,
\* unknown), whatever its claims (valid or expired) and its signature are; the gate
\* passes no such request on.
C9_NonHMACRejected ==
    \A tok \in NonHMACTokens :
        /\ ValidateAccessToken(jwtManager, tok, now)
             = [err |-> "ErrInvalidToken", claims |-> NoClaims]
        /\ JWTAuth(jwtManager, "me", <<"Bearer", tok>>, now)
             = [next |-> FALSE, claims |-> NoClaims,
                resp |-> respondUnauthorized("me", "Invalid token")]

\* C9 witness: an issued token whose header was rewritten to alg "none", its claims
\* already expired, has been presented and answered "Invalid token"
C9_Witness ==
    /\ resp.op = "me"
    /\ resp.message = "Invalid token"
    /\ Len(resp.req) = 2
    /\ resp.req[2] \in NonHMACTokens
    /\ [resp.req[2] EXCEPT !.alg = "HS256"] \in IssuedAccess
    /\ now >= resp.req[2].claims.exp

NoHeader == {h \in AllHeaders : Len(h) = 0}
BearerWith(err) ==
    {h \in AllHeaders :
        /\ Len(h) = 2
        /\ EqualFoldBearer(h[1])
        /\ ValidateAccessToken(jwtManager, h[2], now).err = err}

GateMessage(h) == JWTAuth(jwtManager, "me", h, now).resp.message

\* C10: the gate refuses with status 401 a request without Authorization header
\* ("Authorization header required"), one with an expired access token ("Token has
\* expired") and one with an otherwise invalid token ("Invalid token"); the three
\* messages are pairwise different and none of the requests is passed on.
C10_GateRejections ==
    /\ \A h \in NoHeader \cup BearerWith("ErrExpiredToken") \cup BearerWith("ErrInvalidToken") :
          LET g == JWTAuth(jwtManager, "me", h, now)
          IN  /\ ~g.next
              /\ g.resp.status = StatusUnauthorized
              /\ ~g.resp.success
              /\ g.resp.data = NoData
    /\ \A h \in NoHeader : GateMessage(h) = "Authorization header required"
    /\ \A h \in BearerWith("ErrExpiredToken") : GateMessage(h) = "Token has expired"
    /\ \A h \in BearerWith("ErrInvalidToken") : GateMessage(h) = "Invalid token"
    /\ \A a \in NoHeader, b \in BearerWith("ErrExpiredToken"), c \in BearerWith("ErrInvalidToken") :
          GateMessage(a) # GateMessage(b) /\ GateMessage(b) # GateMessage(c)
          /\ GateMessage(a) # GateMessage(c)
    /\ (resp.op = "me" /\ resp.status # StatusOK) => resp.status = StatusUnauthorized

\* C10 witness: requests of the three kinds exist and one with an expired token has
\* been answered
C10_Witness ==
    /\ NoHeader # {}
    /\ BearerWith("ErrExpiredToken") # {}
    /\ BearerWith("ErrInvalidToken") # {}
    /\ resp.op = "me"
    /\ resp.req \in BearerWith("ErrExpiredToken")
    /\ resp.status = StatusUnauthorized
    /\ resp.message = "Token has expired"

\* the Authorization values on which the codec accepts the bearer token
Validated(h) ==
    /\ Len(h) = 2
    /\ EqualFoldBearer(h[1])
    /\ ValidateAccessToken(jwtManager, h[2], now).err = "nil"

\* C11: the gate passes a request on, with claims in its context, if and only if
\* ValidateAccessToken accepted the bearer token of that request; the claims are
\* then the ones the token carries.  On every refusal the handler is not invoked,
\* no claims are attached and the answer is a 401.
C11_GateSoundness ==
    /\ \A h \in AllHeaders :
          LET g == JWTAuth(jwtManager, "me", h, now)
          IN  /\ g.next <=> Validated(h)
              /\ g.next => g.claims = h[2].claims /\ h[2] \in IssuedAccess
              /\ ~g.next => /\ g.claims = NoClaims
                            /\ g.resp.status = StatusUnauthorized
                            /\ g.resp.data = NoData
    /\ (resp.op = "me" /\ resp.status = StatusOK) =>
          /\ Len(resp.req) = 2
          /\ resp.req[2] \in IssuedAccess
          /\ resp.data.id = resp.req[2].claims.user_id

\* C11 witness: GetMe has answered for the user named by the claims of the token
\* presented, while other Authorization values are refused
C11_Witness ==
    /\ resp.op = "me"
    /\ resp.status = StatusOK
    /\ Validated(resp.req)
    /\ resp.data.id = resp.req[2].claims.user_id
    /\ \E h \in AllHeaders : Len(h) = 2 /\ ~Validated(h)

\* the sessions (raw refresh tokens) an access token was handed out with
SessionsOf(tok) == {issuedLog[i].refresh : i \in {j \in 1..Len(issuedLog) : issuedLog[j].access = tok}}

C13_LogoutInvalidatesAccessToken ==
    (resp.op = "logout" /\ resp.status = StatusOK) =>
        ~JWTAuth(jwtManager, "me", resp.req, now).next

\* the lookup of the digest of a raw token finds an active record
ActiveLookup(t) ==
    GetRefreshTokenByHash(refresh_tokens, HashRefreshToken(t), now).err = "nil"

\* C14: once the record of an issued refresh token has been revoked (by
\* RevokeRefreshToken or RevokeAllUserRefreshTokens) or has expired, so that the
\* lookup of its digest finds nothing, no Login, Refresh, Logout, revoke or cleanup
\* step makes that lookup return an active record again.
C14_RevocationTerminal ==
    [][\A t \in IssuedRaw : ~ActiveLookup(t) => ~ActiveLookup(t)']_vars

\* C14 witness: the records of a rotated token and of a token that only expired
\* have been deleted by the cleanup, and a Refresh presenting one of them was refused
C14_Witness ==
    /\ \E t \in rotated :
          \A i \in 1..Len(refresh_tokens) : refresh_tokens[i].token_hash # HashRefreshToken(t)
    /\ \E t \in ExpiredRaw \ RevokedRaw :
          \A i \in 1..Len(refresh_tokens) : refresh_tokens[i].token_hash # HashRefreshToken(t)
    /\ resp.op = "refresh"
    /\ resp.status = StatusUnauthorized
    /\ resp.req \in IssuedRaw
    /\ \A i \in 1..Len(refresh_tokens) :
          refresh_tokens[i].token_hash # HashRefreshToken(resp.req)

\* a Register body that passes decoding and validation
WellFormedRegister(r) == r.okJSON /\ RegisterValidate(r.email, r.name, r.password) = {}

\* ways of typing the same address: in capitals, with blanks around it
Spellings == {{EmailA, EmailAUpper, EmailAPadded}, {EmailX}}

EmailTaken409 ==
    respondError("register", StatusConflict, "Email already registered", {})

C16_EmailNormalization ==
    /\ \A i \in 1..Len(users) : users[i].email \in {EmailA, EmailX}
    /\ \A i \in 1..Len(users), F \in Spellings :
          users[i].email \in F =>
            \A e \in F :
              LET c == LoginCheck(users, TRUE, e, users[i].password_hash.of)
                  res == RegisterResult(users, TRUE, e, GoodName, GoodPassword)
              IN  /\ c.ok
                  /\ c.user = users[i]
                  /\ res.resp.status = StatusConflict
                  /\ res.tab = users
    /\ (resp.op = "login" /\ resp.status = StatusOK) =>
          \E i \in 1..Len(users) : resp.data.user = UserResponse(users[i])

\* C16 witness: the account a@b.c, registered in capitals or with blanks (the plain
\* spelling is never sent to Register), has logged in, and a second registration of
\* the address has not added a row
C16_Witness ==
    /\ Len(users) = 1
    /\ users[1].email = EmailA
    /\ resp.op = "login"
    /\ resp.status = StatusOK
    /\ resp.data.user.email = EmailA

\* C17: a process whose JWT secret is empty never serves: it answers no request,
\* creates no user and no session, issues no token; every access token ever issued
\* is signed with a non-empty secret, and so is every one the gate accepts.
C17_EmptySecretRejectedAtStartup ==
    /\ cfg.JWTSecret = "" =>
          /\ proc # "serving"
          /\ resp.op = "none"
          /\ issuedLog = <<>>
          /\ users = <<>>
          /\ refresh_tokens = <<>>
    /\ \A tok \in IssuedAccess : tok.mac.key # ""
    /\ (resp.op = "me" /\ resp.status = StatusOK) => NewJWTManager(cfg).secretKey # ""

\* C17 witness: main has run on an empty secret and the process is gone
C17_Witness ==
    /\ cfg.JWTSecret = ""
    /\ proc = "exited"

\* n is d in whole seconds: the part of a second is dropped
WholeSeconds(n, d) ==
    IF d >= 0 THEN n * Second <= d /\ d < (n + 1) * Second
    ELSE (n - 1) * Second < d /\ d <= n * Second

LookupDigests ==
    {HashRefreshToken(r.refresh_token) : r \in RefreshRequests}
    \cup {refresh_tokens[i].token_hash : i \in 1..Len(refresh_tokens)}

\* the rows with digest d that are not revoked and expire after the present instant
UsableRows(d) ==
    {i \in 1..Len(refresh_tokens) :
        /\ refresh_tokens[i].token_hash = d
        /\ refresh_tokens[i].revoked_at = NullTime
        /\ refresh_tokens[i].expires_at > UnixMilli(now)}

\* C19: GetRefreshTokenByHash(d) returns a record exactly when a record with digest d
\* exists that is unrevoked and has expires_at > now, and returns such a record (one
\* with expires_at = now is not returned); a well-formed Refresh call passes its
\* check exactly when that lookup returns a record, and is answered 401 otherwise.
C19_ActiveLookupPredicate ==
    /\ \A d \in LookupDigests :
          LET r == GetRefreshTokenByHash(refresh_tokens, d, now)
          IN  /\ (r.err = "nil") <=> (UsableRows(d) # {})
              /\ r.err = "nil" => \E i \in UsableRows(d) : r.row = refresh_tokens[i]
              /\ r.err # "nil" => r.err = "sql.ErrNoRows"
    /\ \A q \in RefreshRequests :
          LET c == RefreshCheck(refresh_tokens, q.okJSON, q.refresh_token, now)
              d == HashRefreshToken(q.refresh_token)
          IN  /\ c.ok <=> (UsableRows(d) # {})
              /\ c.ok => c.row = GetRefreshTokenByHash(refresh_tokens, d, now).row
              /\ ~c.ok => c.resp = InvalidRefresh401
    /\ \A w \in Workers :
          pc[w] # "idle" =>
            /\ storedToken[w].token_hash = tokenHash[w]
            /\ storedToken[w].revoked_at = NullTime
            /\ \E i \in 1..Len(refresh_tokens) :
                  refresh_tokens[i].token_hash = tokenHash[w]

\* C19 witness: an unrevoked record expires at this very instant, and the Refresh
\* call that presented its token has been answered 401
C19_Witness ==
    /\ resp.op = "refresh"
    /\ resp.status = StatusUnauthorized
    /\ \E i \in 1..Len(refresh_tokens) :
          /\ refresh_tokens[i].token_hash = HashRefreshToken(resp.req)
          /\ refresh_tokens[i].revoked_at = NullTime
          /\ refresh_tokens[i].expires_at = UnixMilli(now)

\* the active records of a table: the digests a lookup at this instant returns
ActiveSet(tab) ==
    {tab[i].token_hash : i \in {j \in 1..Len(tab) :
        tab[j].revoked_at = NullTime /\ tab[j].expires_at > UnixMilli(now)}}

\* C20: RevokeRefreshToken is idempotent: revoking a digest twice leaves the same
\* active records as revoking it once; revoking a digest without a record changes
\* nothing; revoking an already revoked digest leaves the active records as they
\* were; in none of these cases does the Refresh call that ran it fail.
C20_RevokeIdempotent ==
    /\ \A d \in LookupDigests :
          LET once == RevokeRefreshToken(refresh_tokens, d, now)
              twice == RevokeRefreshToken(once, d, now)
              rows == {i \in 1..Len(refresh_tokens) : refresh_tokens[i].token_hash = d}
          IN  /\ ActiveSet(twice) = ActiveSet(once)
              /\ ActiveSet(once) = ActiveSet(refresh_tokens) \ {d}
              /\ Len(once) = Len(refresh_tokens)
              /\ rows = {} => once = refresh_tokens
              /\ (\A i \in rows : refresh_tokens[i].revoked_at.Valid)
                    => ActiveSet(once) = ActiveSet(refresh_tokens)
    /\ \A w \in Workers :
          pc[w] = "issue" =>
            \A i \in 1..Len(refresh_tokens) :
              refresh_tokens[i].token_hash = tokenHash[w] => refresh_tokens[i].revoked_at.Valid
    /\ resp.op = "refresh" => resp.status # StatusInternalServerError

\* C20 witness: two Refresh calls have revoked the same digest one after the other,
\* the second finding it revoked, and both go on
C20_Witness ==
    /\ pc[1] = "issue"
    /\ pc[2] = "issue"
    /\ tokenHash[1] = tokenHash[2]
    /\ \E i \in 1..Len(refresh_tokens) :
          refresh_tokens[i].token_hash = tokenHash[1] /\ refresh_tokens[i].revoked_at.Valid

\* the tokens handed out by Refresh calls, in order: the k-th replaces redeemed[k]
RefreshEntries == SelectSeq(issuedLog, LAMBDA e : e.via = "refresh")

RowsOf(rawToken) ==
    {i \in 1..Len(refresh_tokens) :
        refresh_tokens[i].token_hash = HashRefreshToken(rawToken)}

\* C21: in every Refresh call the presented record is revoked before the replacement
\* record is created and before the new tokens are returned: whenever a replacement
\* record exists, the record it replaces is revoked, no later than the replacement
\* was created; a call that has reached the issuing step has its presented record
\* revoked already.
C21_RotationOrdering ==
    /\ Len(RefreshEntries) = Len(redeemed)
    /\ \A k \in 1..Len(redeemed) :
          \A i \in RowsOf(redeemed[k]), j \in RowsOf(RefreshEntries[k].refresh) :
            /\ refresh_tokens[i].revoked_at.Valid
            /\ refresh_tokens[i].revoked_at.Time <= refresh_tokens[j].created_at
            /\ refresh_tokens[i].user_id = refresh_tokens[j].user_id
    /\ \A w \in Workers :
          pc[w] = "issue" =>
            /\ RowsOf(presented[w]) # {}
            /\ \A i \in RowsOf(presented[w]) : refresh_tokens[i].revoked_at.Valid
    /\ (resp.op = "refresh" /\ resp.status = StatusOK) =>
          \A i \in RowsOf(resp.req) : refresh_tokens[i].revoked_at.Valid

\* C21 witness: a Refresh call revoked the presented record at one instant and
\* created the replacement at a later one
C21_Witness ==
    \E k \in 1..Len(redeemed) :
      \E i \in RowsOf(redeemed[k]), j \in RowsOf(RefreshEntries[k].refresh) :
        /\ refresh_tokens[i].revoked_at.Valid
        /\ refresh_tokens[i].revoked_at.Time < refresh_tokens[j].created_at

\* the columns of a refresh_tokens row the model keeps
RefreshTokenColumns == {"user_id", "token_hash", "expires_at", "revoked_at", "created_at"}

\* C22: a refresh-token record holds the SHA-256 digest of a secret that was handed
\* out, and nothing else of it; a secret is in the body of the Login or Refresh
\* success response of the call that generated it and of no other response: the
\* bodies that carry a secret carry the newest one, and no secret is generated twice.
C22_RawSecretNeverPersisted ==
    /\ \A i \in 1..Len(refresh_tokens) :
          /\ DOMAIN refresh_tokens[i] = RefreshTokenColumns
          /\ \E t \in IssuedRaw : refresh_tokens[i].token_hash = HashRefreshToken(t)
    /\ \A i, j \in 1..Len(issuedLog) : issuedLog[i].refresh = issuedLog[j].refresh => i = j
    /\ resp.data.kind \in {"login", "refresh"} <=>
          (resp.op \in {"login", "refresh"} /\ resp.status = StatusOK)
    /\ resp.data.kind \in {"login", "refresh"} =>
          /\ issuedLog # <<>>
          /\ resp.data.refresh_token = issuedLog[Len(issuedLog)].refresh
          /\ resp.op = issuedLog[Len(issuedLog)].via
          /\ resp.op = "refresh" => resp.data.refresh_token # resp.req

\* C22 witness: a second secret has been handed out, by a Refresh call, and both
\* digests are in the store
C22_Witness ==
    /\ Len(issuedLog) = 2
    /\ Len(refresh_tokens) = 2
    /\ resp.op = "refresh"
    /\ resp.data.kind = "refresh"
    /\ resp.data.refresh_token # issuedLog[1].refresh

\* C23: in every store state, a Login for an email that is not registered runs the
\* same sequence of steps as a Login with a registered email and a wrong password,
\* the password comparison included.
C23_LoginComparableWork ==
    \A u \in UnknownEmailLogins, w \in WrongPasswordLogins :
      LET su == LoginSteps(users, u.okJSON, u.email, u.password)
          sw == LoginSteps(users, w.okJSON, w.email, w.password)
      IN  /\ su = sw
          /\ \E k \in 1..Len(su) : su[k] = "bcrypt.CompareHashAndPassword"

\* C24: the access token a successful Refresh returns carries the id, email and
\* role the owning user has in the users table when the call issues it, whatever
\* they were when the presented refresh token was issued.
C24_RefreshClaimsCurrent ==
    [][\A w \in Workers :
         (pc[w] = "issue" /\ pc'[w] = "idle" /\ Len(issuedLog') = Len(issuedLog) + 1) =>
           LET e == issuedLog'[Len(issuedLog')]
               owner == users[storedToken[w].user_id]
           IN  /\ e.via = "refresh"
               /\ e.access.claims.user_id = owner.id
               /\ e.access.claims.email = owner.email
               /\ e.access.claims.role = owner.role
               /\ resp'.data.access_token = e.access]_vars

\* C24 witness: a Refresh has been answered with an access token whose email and
\* role are not those of the token the Login had given
C24_Witness ==
    /\ Len(issuedLog) = 2
    /\ issuedLog[2].via = "refresh"
    /\ resp.op = "refresh"
    /\ resp.status = StatusOK
    /\ resp.data.access_token.claims.role # issuedLog[1].access.claims.role
    /\ resp.data.access_token.claims.email # issuedLog[1].access.claims.email
    /\ resp.data.access_token.claims.user_id = issuedLog[1].access.claims.user_id

\* the messages of the 500 answers of Login and Refresh
ServerErrorMessages ==
    {"Failed to process login", "Failed to generate token", "Failed to create session",
     "Failed to validate token", "Failed to process refresh", "Failed to fetch user"}

IsServerError(r) ==
    /\ r.status = StatusInternalServerError
    /\ ~r.success
    /\ r.message \in ServerErrorMessages
    /\ r.data = NoData
    /\ r.details = {}

\* C25: a store error other than "no row" at the lookup, and a failure of any later
\* store or generator step, is answered 500 with a generic message and never 401;
\* Login answers 401 exactly for an unknown email or a wrong password, Refresh
\* exactly for a digest without an active record.
C25_ErrorClassification ==
    /\ \A step \in LoginFaultSteps : IsServerError(LoginFailureResponse(step))
    /\ \A step \in RefreshFaultSteps : IsServerError(RefreshFailureResponse(step))
    /\ \A r \in AllLoginRequests :
          LoginCheck(users, r.okJSON, r.email, r.password).resp.status = StatusUnauthorized
            <=> r \in WrongPasswordLogins \cup UnknownEmailLogins
    /\ \A q \in AllRefreshRequests :
          RefreshCheck(refresh_tokens, q.okJSON, q.refresh_token, now).resp.status
              = StatusUnauthorized
            <=> /\ q.okJSON
                /\ RefreshValidate(q.refresh_token) = {}
                /\ UsableRows(HashRefreshToken(q.refresh_token)) = {}
    /\ resp.status = StatusInternalServerError => IsServerError(resp)
    /\ (resp.op = "login" /\ resp.status = StatusUnauthorized) => resp = InvalidLogin401
    /\ (resp.op = "refresh" /\ resp.status = StatusUnauthorized) =>
          resp.message = "Invalid or expired refresh token"

\* C25 witness: the store failed at the lookup of a refresh token whose record is
\* active, and the call was answered 500, not 401
C25_Witness ==
    /\ resp.op = "refresh"
    /\ resp.status = StatusInternalServerError
    /\ resp.message = "Failed to validate token"
    /\ UsableRows(HashRefreshToken(resp.req)) # {}

\* C26: a Refresh call answered 401 or 400 changes nothing: the refresh-token
\* table, the users table and the generator are as before, and no call is left in
\* progress that could change them later.
C26_RejectedRefreshNoEffect ==
    [][(/\ resp'.op = "refresh"
        /\ resp'.status \in {StatusBadRequest, StatusUnauthorized}
        /\ pc' = pc
        /\ now' = now)
         => /\ refresh_tokens' = refresh_tokens
            /\ users' = users
            /\ entropy' = entropy
            /\ issuedLog' = issuedLog]_vars

\* C26 witness: a token that is past its expiry and was never revoked has been
\* refused with 401, and its record is still unrevoked
C26_Witness ==
    /\ resp.op = "refresh"
    /\ resp.status = StatusUnauthorized
    /\ resp.req \in ExpiredRaw \ RevokedRaw
    /\ RowsOf(resp.req) # {}
    /\ \A i \in RowsOf(resp.req) : refresh_tokens[i].revoked_at = NullTime

\* a Refresh call of worker w that had found its token active ends in this step with
\* an error answer
EndsInError(w) ==
    /\ pc[w] \in {"revoke", "issue"}
    /\ pc'[w] = "idle"
    /\ resp'.op = "refresh"
    /\ ~resp'.success

\* C27: whenever a Refresh call that presented an active token ends with
\* an error answer, the record of the presented token is unrevoked afterwards.
C27_RefreshAllOrNothing ==
    [][\A w \in Workers :
         EndsInError(w) =>
           \A i \in 1..Len(refresh_tokens') :
             refresh_tokens'[i].token_hash = tokenHash[w]
               => refresh_tokens'[i].revoked_at = NullTime]_vars

\* what Refresh does instead (C27): a Refresh call that fails at the rotation UPDATE leaves the table as
\* it was, the presented record unrevoked; a call that fails after the UPDATE answers
\* 500, creates no record, issues nothing, and leaves the presented record revoked,
\* so that the presented token is refused with 401 from then on.
C27_RefreshFailureOutcome ==
    [][\A w \in Workers :
         EndsInError(w) =>
           /\ resp'.status = StatusInternalServerError
           /\ refresh_tokens' = refresh_tokens
           /\ issuedLog' = issuedLog
           /\ pc[w] = "revoke" =>
                 \A i \in 1..Len(refresh_tokens') :
                   refresh_tokens'[i].token_hash = tokenHash[w]
                     => refresh_tokens'[i].revoked_at = storedToken[w].revoked_at
           /\ pc[w] = "issue" =>
                 /\ \A i \in 1..Len(refresh_tokens') :
                       refresh_tokens'[i].token_hash = tokenHash[w]
                         => refresh_tokens'[i].revoked_at.Valid
                 /\ RefreshCheck(refresh_tokens', TRUE, presented[w], now').resp
                       = InvalidRefresh401]_vars

\* the state C27 rules out, reached: CreateRefreshToken failed in a Refresh call; the presented record is
\* revoked, no replacement exists, and the token is refused
C27_SessionLost ==
    /\ resp.op = "refresh"
    /\ resp.status = StatusInternalServerError
    /\ resp.message = "Failed to create session"
    /\ RowsOf(resp.req) # {}
    /\ \A i \in RowsOf(resp.req) : refresh_tokens[i].revoked_at.Valid
    /\ Len(refresh_tokens) = Len(issuedLog)
    /\ ~RefreshCheck(refresh_tokens, TRUE, resp.req, now).ok

\* users whose last successful Login came before a completed Logout of theirs
LoggedOutUsers ==
    {u \in 1..Len(users) :
        LET logins == {i \in 1..Len(issuedLog) :
                          issuedLog[i].via = "login" /\ issuedLog[i].user_id = u}
        IN  /\ logins # {}
            /\ issuedLog[CHOOSE i \in logins : \A j \in logins : j <= i].refresh
                  \in loggedOut}

\* C28: once a Logout of user u has completed, and until u's next successful Login,
\* u has no active refresh-token record, whatever Refresh calls of u were in
\* progress when the Logout ran.
C28_LogoutLeavesNoSession ==
    \A u \in LoggedOutUsers :
      \A i \in 1..Len(refresh_tokens) :
        refresh_tokens[i].user_id = u =>
          \/ refresh_tokens[i].revoked_at.Valid
          \/ refresh_tokens[i].expires_at <= UnixMilli(now)

\* the rows of refresh_tokens that the step changes
ChangedRows == {i \in 1..Len(refresh_tokens) : refresh_tokens'[i] # refresh_tokens[i]}

\* C29: a Logout of user u changes only rows owned by u; the rotation UPDATE of a
\* Refresh call changes only the row of the presented token; the replacement a
\* Refresh call creates, and the tokens it returns, belong to the owner of the
\* presented row; no other row is touched.
C29_UserScoped ==
    [][/\ Len(refresh_tokens') >= Len(refresh_tokens)
       /\ (resp'.op = "logout" /\ resp'.status = StatusOK /\ pc' = pc) =>
             /\ Len(refresh_tokens') = Len(refresh_tokens)
             /\ \A i \in ChangedRows :
                   /\ refresh_tokens[i].user_id = resp'.req[2].claims.user_id
                   /\ refresh_tokens'[i].user_id = refresh_tokens[i].user_id
                   /\ refresh_tokens'[i].token_hash = refresh_tokens[i].token_hash
       /\ \A w \in Workers :
             /\ (pc[w] = "revoke" /\ pc'[w] = "issue") =>
                   /\ Len(refresh_tokens') = Len(refresh_tokens)
                   /\ \A i \in ChangedRows : refresh_tokens[i].token_hash = tokenHash[w]
             /\ (pc[w] = "issue" /\ pc'[w] = "idle") =>
                   /\ ChangedRows = {}
                   /\ Len(refresh_tokens') = Len(refresh_tokens) + 1
                   /\ LET new == refresh_tokens'[Len(refresh_tokens')]
                           e == issuedLog'[Len(issuedLog')]
                       IN  /\ \A i \in 1..Len(refresh_tokens) :
                                 refresh_tokens[i].token_hash = tokenHash[w]
                                   => refresh_tokens[i].user_id = new.user_id
                           /\ new.token_hash = HashRefreshToken(e.refresh)
                           /\ e.user_id = new.user_id
                           /\ e.access.claims.user_id = new.user_id]_vars

\* C29 witness: user 1 has logged out, all rows of user 1 are revoked, and user 2
\* still has an active session
C29_Witness ==
    /\ resp.op = "logout"
    /\ resp.status = StatusOK
    /\ resp.req[2].claims.user_id = 1
    /\ \E i \in 1..Len(refresh_tokens) : refresh_tokens[i].user_id = 1
    /\ \A i \in 1..Len(refresh_tokens) :
          refresh_tokens[i].user_id = 1 => refresh_tokens[i].revoked_at.Valid
    /\ \E i \in 1..Len(refresh_tokens) :
          refresh_tokens[i].user_id = 2 /\ refresh_tokens[i].revoked_at = NullTime

\* C30: a refresh-token record for user u is created only by a Login that found u
\* and verified u's password, or by a Refresh call that had found an active record
\* owned by u; a Login that fails (undecodable or invalid body, unknown email, wrong
\* password) creates no record and changes nothing in the store.
C30_IssuedOnlyAfterAuthentication ==
    [][/\ \A r \in AllLoginRequests :
             LET c == LoginCheck(users, r.okJSON, r.email, r.password)
             IN  c.ok <=> /\ WellFormedLogin(r)
                          /\ \E i \in AccountsOf(r) :
                                /\ users[i].password_hash.of = r.password
                                /\ c.user = users[i]
       /\ Len(refresh_tokens') # Len(refresh_tokens) =>
             LET new == refresh_tokens'[Len(refresh_tokens')]
             IN  /\ Len(refresh_tokens') = Len(refresh_tokens) + 1
                 /\ SubSeq(refresh_tokens', 1, Len(refresh_tokens)) = refresh_tokens
                 /\ new.user_id \in 1..Len(users)
                 /\ \/ /\ pc' = pc
                       /\ resp'.op = "login"
                       /\ resp'.status = StatusOK
                       /\ resp'.data.user = UserResponse(users[new.user_id])
                       /\ \E r \in AllLoginRequests :
                             LET c == LoginCheck(users, r.okJSON, r.email, r.password)
                             IN  c.ok /\ c.user.id = new.user_id
                    \/ \E w \in Workers :
                          /\ pc[w] = "issue"
                          /\ pc'[w] = "idle"
                          /\ resp'.op = "refresh"
                          /\ resp'.status = StatusOK
                          /\ storedToken[w].user_id = new.user_id
                          /\ storedToken[w].revoked_at = NullTime
                          /\ storedToken[w].token_hash = tokenHash[w]
                          /\ \E i \in 1..Len(refresh_tokens) :
                                /\ refresh_tokens[i].token_hash = tokenHash[w]
                                /\ refresh_tokens[i].user_id = new.user_id
       /\ (resp'.op = "login" /\ resp'.status # StatusOK /\ pc' = pc) =>
             /\ refresh_tokens' = refresh_tokens
             /\ users' = users
             /\ issuedLog' = issuedLog
             /\ entropy' = entropy]_vars

\* C30 witness: both users hold sessions, one of them made by a Refresh call, and a
\* Login has just been refused with 401: the store holds the issued records only
C30_Witness ==
    /\ resp.op = "login"
    /\ resp.status = StatusUnauthorized
    /\ Len(refresh_tokens) = 3
    /\ Len(issuedLog) = 3
    /\ \E i \in 1..3 : issuedLog[i].via = "refresh"
    /\ \E i, j \in 1..3 : refresh_tokens[i].user_id # refresh_tokens[j].user_id

====
